---- MODULE Spec2Model ----
(***************************************************************************)
(* Verification model of the NoteFlow symbolic-music pipeline:             *)
(*   - SheetGenerator  (services/sheet_generator.py): tick quantization,   *)
(*     tie splitting and per-measure voice writing of the MusicXML export; *)
(*   - ChordDetector   (services/chord_detector.py): measure segmentation  *)
(*     and chord template matching;                                        *)
(*   - ArrangementPatterns (services/arrangement_patterns.py): adaptive    *)
(*     pattern selection and velocity adjustment.                          *)
(*                                                                         *)
(* Arithmetic is exact.  Export times are counted in ticks of the export   *)
(* grid (10080 per quarter note), so n.start / sixteenth_duration is       *)
(* start / 2520 for every tempo.  Chord-detector times are counted in      *)
(* fractions of a beat.  Thresholds such as 0.08 or 1.5 are compared after *)
(* clearing denominators.  The one place where binary floating point can   *)
(* change a result, the truncation in _adjust_velocity, is modelled as a   *)
(* choice between the results rounding can give.                           *)
(***************************************************************************)
EXTENDS Integers, Sequences, FiniteSets, TLC

\* ------------------------------------------------------------------------
\* Bounds of the model
\* ------------------------------------------------------------------------
MaxNotes == 3
MaxChordNotes == 3
UnitsPerBeat == 2

\* ------------------------------------------------------------------------
\* Program constants
\* ------------------------------------------------------------------------
divisions == 10080
SplitPitch == 60

ticks_per_sixteenth == divisions \div 4
ticks_per_measure == divisions * 4
eighth_ticks == divisions \div 2

VARIABLES
    midi_notes,     \* exporter: the notes of the MIDI file (all instruments)
    xpc,            \* exporter: position in midi_to_musicxml
    key,            \* exporter: key_note, key_mode and fifths
    rh_events,      \* exporter: tick events of the right hand
    lh_events,      \* exporter: tick events of the left hand
    chains,         \* exporter: per merged note, the events appended for it
    measure_num,    \* exporter: next measure to write
    part,           \* exporter: measures written so far
    all_notes,          \* chord detector: the notes of all instruments
    beats_per_measure,  \* chord detector: argument of detect_chords
    cpc,                \* chord detector: position in detect_chords
    m,                  \* chord detector: loop index of `for m in range(measure_count)`
    weights,            \* chord detector: pitch_class_weight of each measure so far
    chords,             \* chord detector: the chords appended so far
    ctx,                \* arranger: the MeasureContext of the measure being generated
    pattern,            \* arranger: argument `pattern` of generate
    base_velocity,      \* arranger: argument `velocity` of generate
    apc,                \* arranger: position in the loop body of generate
    chosen,             \* arranger: the pattern chosen for the measure
    adjusted_velocity,  \* arranger: the velocity passed to the generator
    templates,          \* arranger: the CHORD_TEMPLATES table pitches_in_octave reads
    gen,                \* arranger: the other arguments of generate
    contexts,           \* arranger: the list _analyze_contexts returned
    gi,                 \* arranger: loop index of `for i, chord in enumerate(chords)`
    gen_events,         \* arranger: `events`, what the generator of the last iteration returned
    all_events,         \* arranger: the events generated so far
    gpc,                \* arranger: position in generate
    ppc,                \* converter: position in create_two_hand_midi and the export after it
    midi_tempo,         \* converter: the tempo _estimate_tempo returns
    output,             \* converter: the two instruments of the two-hand MIDI
    staff_notes,        \* exporter: right_hand_notes and left_hand_notes of the two-hand MIDI
    instruments,        \* quantizer: the note lists of midi_data.instruments
    grid,               \* quantizer: the grid name handed to quantize_midi
    qi,                 \* quantizer: instruments processed so far
    quantized,          \* quantizer: the note lists of output.instruments
    qpc,                \* quantizer: position in quantize_midi
    midi_pitch,         \* spelling: argument midi_pitch of _midi_to_pitch
    key_fifths,         \* spelling: argument key_fifths of _midi_to_pitch
    spelled,            \* spelling: the (step, alter, octave) returned, <<>> before the call
    user,               \* rate limiter: the User row of the caller, <<>> for a guest
    now,                \* rate limiter: year and month of datetime.now(timezone.utc)
    calls,              \* rate limiter: calls of check_and_increment made so far
    month_successes,    \* rate limiter: calls that returned normally in the month of `now`
    last_call,          \* rate limiter: the User before and after the last call, and its outcome
    request,            \* endpoint: the audio file named by the body of POST /transcriptions
    tpc,                \* endpoint: position in create_transcription
    printed,            \* endpoint: status of the exception the pre-check's except clause printed
    response,           \* endpoint: HTTP status the request ended with, 0 before
    record              \* endpoint: the entry of _transcriptions for the request, <<>> before

xvars == <<midi_notes, xpc, key, rh_events, lh_events, chains, measure_num, part>>
cvars == <<all_notes, beats_per_measure, cpc, m, weights, chords>>

avars == <<ctx, pattern, base_velocity, apc, chosen, adjusted_velocity>>

gvars == <<templates, gen, contexts, gi, gen_events, all_events, gpc>>

pvars == <<ppc, midi_tempo, output, staff_notes>>

qvars == <<instruments, grid, qi, quantized, qpc>>

svars == <<midi_pitch, key_fifths, spelled>>

rvars == <<user, now, calls, month_successes, last_call>>

tvars == <<request, tpc, printed, response, record>>

\* the components outside the MIDI services pipeline
lvars == <<svars, rvars, tvars>>

vars == <<xvars, cvars, avars, gvars, pvars, qvars, lvars>>

\* what the actions of one component leave alone
XOthers == <<cvars, avars, gvars, pvars, qvars, lvars>>
COthers == <<xvars, avars, gvars, pvars, qvars, lvars>>
AOthers == <<xvars, cvars, gvars, pvars, qvars, lvars>>

\* a component that is not running
XIdle ==
    /\ midi_notes = {} /\ xpc = "idle" /\ key = <<>> /\ rh_events = <<>> /\ lh_events = <<>>
    /\ chains = <<>> /\ measure_num = 0 /\ part = <<>>
CIdle ==
    /\ all_notes = {} /\ beats_per_measure = 4 /\ cpc = "idle" /\ m = 0
    /\ weights = <<>> /\ chords = <<>>
AIdle ==
    /\ ctx = <<>> /\ pattern = "adaptive" /\ base_velocity = 0 /\ apc = "idle"
    /\ chosen = "none" /\ adjusted_velocity = 0
GIdle ==
    /\ templates = <<>> /\ gen = <<>> /\ contexts = <<>> /\ gi = 0
    /\ gen_events = <<>> /\ all_events = <<>> /\ gpc = "idle"
PIdle ==
    /\ ppc = "idle" /\ midi_tempo = 0 /\ output = <<>> /\ staff_notes = <<>>
QIdle ==
    /\ instruments = <<>> /\ grid = "16th" /\ qi = 0 /\ quantized = <<>> /\ qpc = "idle"
SIdle ==
    /\ midi_pitch = 0 /\ key_fifths = 0 /\ spelled = <<>>
RIdle ==
    /\ user = <<>> /\ now = [year |-> 2025, month |-> 11] /\ calls = 0
    /\ month_successes = 0 /\ last_call = <<>>
TIdle ==
    /\ request = <<>> /\ tpc = "idle" /\ printed = 0 /\ response = 0 /\ record = <<>>
LIdle == SIdle /\ RIdle /\ TIdle

\* ------------------------------------------------------------------------
\* Helpers
\* ------------------------------------------------------------------------
Max(a, b) == IF a >= b THEN a ELSE b
Min(a, b) == IF a <= b THEN a ELSE b
Abs(a) == IF a >= 0 THEN a ELSE -a

RECURSIVE SumSeq(_)
SumSeq(s) == IF s = <<>> THEN 0 ELSE Head(s) + SumSeq(Tail(s))

RECURSIVE Flatten(_)
Flatten(ss) == IF ss = <<>> THEN <<>> ELSE Head(ss) \o Flatten(Tail(ss))

\* Python round(a / b) for a >= 0, b > 0: round half to even
RoundHalfEven(a, b) ==
    LET q == a \div b
        r == a % b
    IN  IF 2 * r < b THEN q
        ELSE IF 2 * r > b THEN q + 1
        ELSE IF q % 2 = 0 THEN q ELSE q + 1

\* list.sort(key=...) is stable: an index is inserted after every index whose
\* key is not greater.  keys[i] is the integer key of element i.
RECURSIVE InsertStable(_, _, _)
InsertStable(i, idx, keys) ==
    IF idx = <<>> THEN <<i>>
    ELSE IF keys[i] < keys[Head(idx)] THEN <<i>> \o idx
    ELSE <<Head(idx)>> \o InsertStable(i, Tail(idx), keys)

RECURSIVE SortedIndices(_, _)
SortedIndices(n, keys) ==
    IF n = 0 THEN <<>> ELSE InsertStable(n, SortedIndices(n - 1, keys), keys)

StableSort(s, keys) ==
    LET idx == SortedIndices(Len(s), keys)
    IN  [k \in 1..Len(s) |-> s[idx[k]]]

\* A set of notes as a list ordered by (start, end, velocity, pitch)
NoteBefore(a, b) ==
    \/ a.start < b.start
    \/ a.start = b.start /\ a.end < b.end
    \/ a.start = b.start /\ a.end = b.end /\ a.velocity < b.velocity
    \/ a.start = b.start /\ a.end = b.end /\ a.velocity = b.velocity /\ a.pitch < b.pitch

RECURSIVE SetToSeq(_)
SetToSeq(S) ==
    IF S = {} THEN <<>>
    ELSE LET x == CHOOSE y \in S : \A z \in S \ {y} : NoteBefore(y, z)
         IN  <<x>> \o SetToSeq(S \ {x})

RECURSIVE IntSetToSeq(_)
IntSetToSeq(S) ==
    IF S = {} THEN <<>>
    ELSE LET x == CHOOSE y \in S : \A z \in S : y <= z
         IN  <<x>> \o IntSetToSeq(S \ {x})

\* ------------------------------------------------------------------------
\* SheetGenerator._merge_consecutive_notes
\* ------------------------------------------------------------------------
\* standard_durations_in_eighths = [8, 6, 4, 3, 2, 1.5, 1, 0.5], in ticks of
\* an eighth note of `eighth` ticks (halves cleared by doubling)
StandardDurationsInEighths2 == <<16, 12, 8, 6, 4, 3, 2, 1>>

\* min((d for d in standard if d >= duration_in_eighths), default=standard[0]),
\* times eighth_duration; dur and the result in ticks
RoundUpToStandard(dur, eighth) ==
    LET fits == {(StandardDurationsInEighths2[k] * eighth) \div 2 :
                    k \in {j \in 1..Len(StandardDurationsInEighths2) :
                             StandardDurationsInEighths2[j] * eighth >= 2 * dur}}
    IN  IF fits = {}
        THEN (StandardDurationsInEighths2[1] * eighth) \div 2
        ELSE CHOOSE d \in fits : \A e \in fits : d <= e

\* the inner while loop: absorb the following same-pitch notes
RECURSIVE MergeRun(_, _, _, _, _)
MergeRun(pitch_notes, j, merged_end, max_velocity, merge_threshold) ==
    IF j > Len(pitch_notes)
    THEN [j |-> j, merged_end |-> merged_end, max_velocity |-> max_velocity]
    ELSE LET next_note == pitch_notes[j]
             gap == next_note.start - merged_end
         IN  IF gap < merge_threshold \/ next_note.start <= merged_end
             THEN MergeRun(pitch_notes, j + 1, Max(merged_end, next_note.end),
                           Max(max_velocity, next_note.velocity), merge_threshold)
             ELSE [j |-> j, merged_end |-> merged_end, max_velocity |-> max_velocity]

\* the outer while loop over one pitch's notes, sorted by start
RECURSIVE MergePitch(_, _, _)
MergePitch(pitch_notes, i, eighth) ==
    IF i > Len(pitch_notes) THEN <<>>
    ELSE LET current == pitch_notes[i]
             run == MergeRun(pitch_notes, i + 1, current.end, current.velocity, eighth * 2)
             final_end == current.start
                          + RoundUpToStandard(run.merged_end - current.start, eighth)
         IN  <<[pitch |-> current.pitch, start |-> current.start,
                end |-> final_end, velocity |-> run.max_velocity]>>
             \o MergePitch(pitch_notes, run.j, eighth)

\* key=lambda n: (n.start, n.pitch), pitch < 128
StartPitchKey(start, pitch) == start * 128 + pitch

_merge_consecutive_notes(notes, eighth) ==
    LET pitches == IntSetToSeq({n.pitch : n \in notes})
        by_pitch == [k \in 1..Len(pitches) |->
                        MergePitch(SetToSeq({n \in notes : n.pitch = pitches[k]}),
                                   1, eighth)]
        merged == Flatten(by_pitch)
    IN  StableSort(merged, [k \in 1..Len(merged) |->
                               StartPitchKey(merged[k].start, merged[k].pitch)])

\* ------------------------------------------------------------------------
\* SheetGenerator._quantize_duration
\* ------------------------------------------------------------------------
\* standard_durations, in list order (whole note first)
StandardDurations(divs) ==
    <<divs * 4, divs * 3, divs * 2, (divs * 3) \div 2,
      divs, (divs * 3) \div 4, divs \div 2, divs \div 4>>

\* the duration left as it is
KeepTicks(ticks, divs) == ticks

\* min(standard_durations, key=lambda d: abs(d - ticks)): the first of the
\* list among the nearest
_quantize_duration(ticks, divs) ==
    LET sd == StandardDurations(divs)
        k == CHOOSE i \in 1..Len(sd) :
                /\ \A j \in 1..Len(sd) : Abs(sd[i] - ticks) <= Abs(sd[j] - ticks)
                /\ \A j \in 1..(i - 1) : Abs(sd[j] - ticks) > Abs(sd[i] - ticks)
    IN  sd[k]

\* ------------------------------------------------------------------------
\* SheetGenerator._quantize_notes_for_xml
\* ------------------------------------------------------------------------
TickEvent(pitch, velocity, start_tick, duration_ticks, tie_start, tie_stop) ==
    [pitch |-> pitch, velocity |-> velocity, start_tick |-> start_tick,
     duration_ticks |-> duration_ticks, tie_start |-> tie_start, tie_stop |-> tie_stop]

\* the while loop that appends the continuation fragments
RECURSIVE TieContinuation(_, _, _, _)
TieContinuation(n, current_tick, remaining, divs) ==
    IF remaining > 0
    THEN LET tpm == divs * 4
             next_measure_end == current_tick + tpm
             chunk == Min(remaining, tpm)
             is_last == (remaining <= tpm)
         IN  <<TickEvent(n.pitch, n.velocity, current_tick,
                         _quantize_duration(chunk, divs), ~is_last, TRUE)>>
             \o TieContinuation(n, next_measure_end, remaining - chunk, divs)
    ELSE <<>>

\* start_tick and duration_ticks of a merged note on the sixteenth grid
QuantizedSpan(n, divs) ==
    LET tps == divs \div 4
        start_sixteenth == RoundHalfEven(n.start, tps)
        end_sixteenth0 == RoundHalfEven(n.end, tps)
        end_sixteenth == IF end_sixteenth0 <= start_sixteenth
                         THEN start_sixteenth + 1 ELSE end_sixteenth0
    IN  [start_tick |-> start_sixteenth * tps,
         duration_ticks |-> _quantize_duration((end_sixteenth - start_sixteenth) * tps, divs)]

\* NoteEvents with the first fragment of a split note left unmarked
NoteEventsFirstUntied(n, divs) ==
    LET tpm == divs * 4
        span == QuantizedSpan(n, divs)
        measure_end == (span.start_tick \div tpm) * tpm + tpm
        end_tick == span.start_tick + span.duration_ticks
    IN  IF end_tick > measure_end
        THEN <<TickEvent(n.pitch, n.velocity, span.start_tick,
                         _quantize_duration(measure_end - span.start_tick, divs),
                         FALSE, FALSE)>>
             \o TieContinuation(n, measure_end, end_tick - measure_end, divs)
        ELSE <<TickEvent(n.pitch, n.velocity, span.start_tick, span.duration_ticks,
                         FALSE, FALSE)>>

\* the body of `for n in notes`: the events appended for one merged note
NoteEvents(n, divs) ==
    LET tpm == divs * 4
        span == QuantizedSpan(n, divs)
        start_tick == span.start_tick
        duration_ticks == span.duration_ticks
        measure_start == (start_tick \div tpm) * tpm
        measure_end == measure_start + tpm
        end_tick == start_tick + duration_ticks
    IN  IF end_tick > measure_end
        THEN <<TickEvent(n.pitch, n.velocity, start_tick,
                         _quantize_duration(measure_end - start_tick, divs), TRUE, FALSE)>>
             \o TieContinuation(n, measure_end, end_tick - measure_end, divs)
        ELSE <<TickEvent(n.pitch, n.velocity, start_tick, duration_ticks, FALSE, FALSE)>>

\* notes after the noise filter and the merge
FilteredMerged(notes, divs) ==
    LET tps == divs \div 4
        kept == {n \in notes : 4 * (n.end - n.start) >= 3 * tps}
    IN  _merge_consecutive_notes(kept, divs \div 2)

\* per merged note: the note, its quantized span and the events appended
NoteChains(notes, divs) ==
    LET merged == FilteredMerged(notes, divs)
    IN  [k \in 1..Len(merged) |->
            [note |-> merged[k],
             start_tick |-> QuantizedSpan(merged[k], divs).start_tick,
             duration_ticks |-> QuantizedSpan(merged[k], divs).duration_ticks,
             events |-> NoteEvents(merged[k], divs)]]

_quantize_notes_for_xml(notes, divs) ==
    LET cs == NoteChains(notes, divs)
        events == Flatten([k \in 1..Len(cs) |-> cs[k].events])
    IN  StableSort(events, [k \in 1..Len(events) |->
                               StartPitchKey(events[k].start_tick, events[k].pitch)])

\* ------------------------------------------------------------------------
\* SheetGenerator._write_voice_to_measure
\* ------------------------------------------------------------------------
\* a <note> element holding a <rest/>
RestItem(duration, voice, staff) ==
    [rest |-> TRUE, chord |-> FALSE, pitch |-> 0, duration |-> duration,
     tie_start |-> FALSE, tie_stop |-> FALSE, voice |-> voice, staff |-> staff,
     beam |-> "none", beam2 |-> "none"]

\* a <note> element holding a <pitch>; chord is the <chord/> marker
NoteItem(event, duration, chord, voice, staff) ==
    [rest |-> FALSE, chord |-> chord, pitch |-> event.pitch, duration |-> duration,
     tie_start |-> event.tie_start, tie_stop |-> event.tie_stop,
     voice |-> voice, staff |-> staff, beam |-> "none", beam2 |-> "none"]

\* the events of one onset, written lowest pitch first
GroupItems(group, duration, voice, staff) ==
    LET sorted == StableSort(group, [k \in 1..Len(group) |-> group[k].pitch])
    IN  [j \in 1..Len(sorted) |-> NoteItem(sorted[j], duration, j > 1, voice, staff)]

\* `for i, rel_tick in enumerate(sorted_times)`, from index i on; beam_notes holds, for
\* each collected <note>, its place in items and its is_sixteenth flag
RECURSIVE WriteGroups(_, _, _, _, _, _, _, _, _, _)
WriteGroups(events, sorted_times, i, current_tick, total_duration_written, items, measure_start_tick, voice, staff, beam_notes) ==
    IF i > Len(sorted_times)
    THEN [items |-> items, total |-> total_duration_written, beam_notes |-> beam_notes]
    ELSE
      LET tpm == ticks_per_measure
          measure_end_tick == measure_start_tick + tpm
          abs_tick == measure_start_tick + sorted_times[i]
          gap == IF abs_tick > current_tick
                 THEN Min(abs_tick - current_tick, measure_end_tick - current_tick)
                 ELSE 0
          items1 == IF gap > 0 THEN Append(items, RestItem(gap, voice, staff)) ELSE items
          total1 == IF gap > 0 THEN total_duration_written + gap ELSE total_duration_written
          beam_notes1 == IF gap > 0 THEN <<>> ELSE beam_notes
          group == SelectSeq(events, LAMBDA e : e.start_tick = abs_tick)
          duration0 == Min(group[1].duration_ticks, measure_end_tick - abs_tick)
          duration == IF total1 + duration0 > tpm THEN tpm - total1 ELSE duration0
          is_eighth == duration = eighth_ticks
          is_sixteenth == duration = divisions \div 4
      IN  IF duration <= 0
          THEN [items |-> items1, total |-> total1, beam_notes |-> beam_notes1]
          ELSE LET items2 == items1 \o GroupItems(group, duration, voice, staff)
                   total2 == total1 + duration
                   beam_notes2 ==
                       IF is_eighth \/ is_sixteenth
                       THEN Append(beam_notes1, [at |-> Len(items1) + 1,
                                                 is_sixteenth |-> is_sixteenth])
                       ELSE beam_notes1
               IN  IF total2 >= tpm
                   THEN [items |-> items2, total |-> total2, beam_notes |-> beam_notes2]
                   ELSE WriteGroups(events, sorted_times, i + 1, abs_tick + duration,
                                    total2, items2, measure_start_tick, voice, staff,
                                    beam_notes2)

\* beam number 1 over the whole list as one group, not cut after 4 notes
Beam1Uncut(beam_notes, k) ==
    IF Len(beam_notes) < 2 THEN "none"
    ELSE IF k = 1 THEN "begin"
    ELSE IF k = Len(beam_notes) THEN "end"
    ELSE "continue"

\* the <beam number="1"> text of beam_notes[k] (k from 1), "none" without the element
Beam1(beam_notes, k) ==
    LET i == ((k - 1) \div 4) * 4
        group_size == Min(i + 4, Len(beam_notes)) - i
        j == k - 1 - i
    IN  IF Len(beam_notes) < 2 \/ group_size < 2 THEN "none"
        ELSE IF j = 0 THEN "begin"
        ELSE IF j = group_size - 1 THEN "end"
        ELSE "continue"

\* the <beam number="2"> text of beam_notes[k]
Beam2(beam_notes, k) ==
    LET i == ((k - 1) \div 4) * 4
        group_size == Min(i + 4, Len(beam_notes)) - i
        j == k - 1 - i
        prev_is_16th == j > 0 /\ beam_notes[k - 1].is_sixteenth
        next_is_16th == j < group_size - 1 /\ beam_notes[k + 1].is_sixteenth
    IN  IF Len(beam_notes) < 2 \/ group_size < 2 \/ ~beam_notes[k].is_sixteenth THEN "none"
        ELSE IF ~prev_is_16th /\ next_is_16th THEN "begin"
        ELSE IF prev_is_16th /\ ~next_is_16th THEN "end"
        ELSE IF prev_is_16th /\ next_is_16th THEN "continue"
        ELSE IF j < group_size - 1 THEN "forward hook" ELSE "backward hook"

\* the items after self._apply_beams(beam_notes)
_apply_beams(items, beam_notes) ==
    [x \in 1..Len(items) |->
        IF \E k \in 1..Len(beam_notes) : beam_notes[k].at = x
        THEN LET k == CHOOSE k \in 1..Len(beam_notes) : beam_notes[k].at = x
             IN  [items[x] EXCEPT !.beam = Beam1(beam_notes, k), !.beam2 = Beam2(beam_notes, k)]
        ELSE items[x]]

\* the <note> elements appended to the measure for one voice
_write_voice_to_measure(events, measure_start_tick, voice, staff) ==
    IF events = <<>>
    THEN <<RestItem(ticks_per_measure, voice, staff)>>
    ELSE
      LET sorted_times == IntSetToSeq({events[k].start_tick - measure_start_tick :
                                          k \in 1..Len(events)})
          w == WriteGroups(events, sorted_times, 1, measure_start_tick, 0, <<>>,
                           measure_start_tick, voice, staff, <<>>)
          beamed == _apply_beams(w.items, w.beam_notes)
      IN  IF w.total < ticks_per_measure
          THEN Append(beamed, RestItem(ticks_per_measure - w.total, voice, staff))
          ELSE beamed

\* ------------------------------------------------------------------------
\* SheetGenerator._detect_key and _key_to_fifths
\* ------------------------------------------------------------------------
major_template == {0, 2, 4, 5, 7, 9, 11}

key_names == <<"c", "des", "d", "ees", "e", "f", "fis", "g", "aes", "a", "bes", "b">>

major_fifths ==
    [k \in {key_names[x] : x \in 1..12} \cup {"ges"} |->
        CASE k = "c" -> 0 [] k = "g" -> 1 [] k = "d" -> 2 [] k = "a" -> 3 [] k = "e" -> 4
          [] k = "b" -> 5 [] k = "fis" -> 6 [] k = "f" -> -1 [] k = "bes" -> -2
          [] k = "ees" -> -3 [] k = "aes" -> -4 [] k = "des" -> -5 [] k = "ges" -> -6]

\* major_fifths.get(key_note, 0)
_key_to_fifths(key_note) ==
    IF key_note \in DOMAIN major_fifths THEN major_fifths[key_note] ELSE 0

\* sum(counts[pc] for pc in scale), scale the template transposed to root
ScaleScore(notes, root) ==
    LET scale == {(root + interval) % 12 : interval \in major_template}
    IN  Cardinality({n \in notes : n.pitch % 12 \in scale})

\* a loop over the roots that keeps the last of the best scores
RECURSIVE KeyLoopLastWins(_, _, _, _)
KeyLoopLastWins(notes, root, best_key, best_score) ==
    IF root > 11 THEN best_key
    ELSE IF ScaleScore(notes, root) >= best_score
         THEN KeyLoopLastWins(notes, root + 1, root, ScaleScore(notes, root))
         ELSE KeyLoopLastWins(notes, root + 1, best_key, best_score)

\* `for root in range(12)`, from root on
RECURSIVE KeyLoop(_, _, _, _)
KeyLoop(notes, root, best_key, best_score) ==
    IF root > 11 THEN best_key
    ELSE IF ScaleScore(notes, root) > best_score
         THEN KeyLoop(notes, root + 1, root, ScaleScore(notes, root))
         ELSE KeyLoop(notes, root + 1, best_key, best_score)

_detect_key(notes) ==
    IF notes = {} THEN [key_note |-> "c", key_mode |-> "major"]
    ELSE [key_note |-> key_names[KeyLoop(notes, 0, 0, 0) + 1], key_mode |-> "major"]

\* ------------------------------------------------------------------------
\* SheetGenerator.midi_to_musicxml
\* ------------------------------------------------------------------------
RightHandNotes(notes) == {n \in notes : n.pitch >= SplitPitch}
LeftHandNotes(notes) == {n \in notes : n.pitch < SplitPitch}

\* midi.get_end_time(): the latest note end, 0 without notes
EndTime(notes) ==
    IF notes = {} THEN 0 ELSE CHOOSE t \in {n.end : n \in notes} : \A n \in notes : n.end <= t

\* max(1, int(total_duration / measure_duration) + 1)
NumMeasures(notes) == Max(1, EndTime(notes) \div ticks_per_measure + 1)

MeasureEvents(events, measure_start_tick) ==
    SelectSeq(events, LAMBDA e : /\ measure_start_tick <= e.start_tick
                                 /\ e.start_tick < measure_start_tick + ticks_per_measure)

\* the input files the exporter is run on (times in ticks)
Note(pitch, start, dur, velocity) ==
    [pitch |-> pitch, start |-> start, end |-> start + dur, velocity |-> velocity]

\* a note from 0.1 s before the first measure boundary to 0.3 s after it at
\* 120 BPM: one quarter is 0.5 s, so 0.1 s is divisions / 5 ticks
ScenarioNote ==
    Note(72, ticks_per_measure - divisions \div 5, (4 * divisions) \div 5, 64)

RightHandCandidates ==
    {Note(p, s * ticks_per_sixteenth, d * ticks_per_sixteenth, 64) :
        p \in {60, 62, 64}, s \in {0, 1, 8, 11}, d \in {1, 12}}

\* starts and lengths off the grid: 2.5 sixteenths, and 0.5 / 1.5 sixteenths
LeftHandCandidates ==
    {Note(48, (s * ticks_per_sixteenth) \div 2, (d * ticks_per_sixteenth) \div 2, 80) :
        s \in {0, 5}, d \in {1, 3, 24}}

\* a note that starts 2.5 sixteenths after the end of the 1.5-sixteenth note at 0:
\* more than an eighth and less than a quarter later
GapNote == Note(48, 4 * ticks_per_sixteenth, (3 * ticks_per_sixteenth) \div 2, 80)

CandidateNotes == RightHandCandidates \cup LeftHandCandidates \cup {ScenarioNote, GapNote}

\* the subsets of S with at most k elements
RECURSIVE SubsetsUpTo(_, _)
SubsetsUpTo(S, k) ==
    IF k = 0 THEN {{}}
    ELSE LET smaller == SubsetsUpTo(S, k - 1)
         IN  smaller \cup {T \cup {x} : T \in smaller, x \in S}

\* the state at the call of midi_to_musicxml on a file holding `notes`
ExportEntry(notes) ==
    /\ midi_notes = notes
    /\ xpc = "quantize"
    /\ key = <<>>
    /\ rh_events = <<>>
    /\ lh_events = <<>>
    /\ chains = <<>>
    /\ measure_num = 0
    /\ part = <<>>
    /\ CIdle
    /\ AIdle
    /\ GIdle
    /\ PIdle
    /\ QIdle
    /\ LIdle

XInit == \E notes \in SubsetsUpTo(CandidateNotes, MaxNotes) : ExportEntry(notes)

\* bound: the notes of a file whose key is detected
MaxKeyNotes == 3

\* files with every pitch class, two notes of each
KeyCandidates ==
    {Note(p, s * ticks_per_sixteenth, 2 * ticks_per_sixteenth, 64) : p \in 60..71, s \in {0, 4}}

KInit == \E notes \in SubsetsUpTo(KeyCandidates, MaxKeyNotes) : ExportEntry(notes)

\* midi_to_musicxml up to the measure loop: key_note, key_mode = self._detect_key(midi),
\* fifths, and rh_events / lh_events = self._quantize_notes_for_xml(...)
Quantize ==
    /\ xpc = "quantize"
    /\ key' = [key_note |-> _detect_key(midi_notes).key_note,
               key_mode |-> _detect_key(midi_notes).key_mode,
               fifths |-> _key_to_fifths(_detect_key(midi_notes).key_note)]
    /\ rh_events' = _quantize_notes_for_xml(RightHandNotes(midi_notes), divisions)
    /\ lh_events' = _quantize_notes_for_xml(LeftHandNotes(midi_notes), divisions)
    /\ chains' = NoteChains(RightHandNotes(midi_notes), divisions)
                 \o NoteChains(LeftHandNotes(midi_notes), divisions)
    /\ xpc' = "write"
    /\ UNCHANGED <<midi_notes, measure_num, part>>
    /\ UNCHANGED XOthers

\* one iteration of `for measure_num in range(num_measures)`
WriteMeasure ==
    /\ xpc = "write"
    /\ measure_num < NumMeasures(midi_notes)
    /\ LET measure_start_tick == measure_num * ticks_per_measure
       IN  part' = Append(part,
                [number |-> measure_num + 1,
                 voice1 |-> _write_voice_to_measure(
                                MeasureEvents(rh_events, measure_start_tick),
                                measure_start_tick, 1, 1),
                 backup |-> ticks_per_measure,
                 voice2 |-> _write_voice_to_measure(
                                MeasureEvents(lh_events, measure_start_tick),
                                measure_start_tick, 2, 2)])
    /\ measure_num' = measure_num + 1
    /\ UNCHANGED <<midi_notes, xpc, key, rh_events, lh_events, chains>>
    /\ UNCHANGED XOthers

\* the document is written to the file
Finish ==
    /\ xpc = "write"
    /\ measure_num = NumMeasures(midi_notes)
    /\ xpc' = "done"
    /\ UNCHANGED <<midi_notes, key, rh_events, lh_events, chains, measure_num, part>>
    /\ UNCHANGED XOthers

XNext == Quantize \/ WriteMeasure \/ Finish

Spec == XInit /\ [][XNext]_vars

\* the exporter on the files of KeyCandidates
SpecKey == KInit /\ [][XNext]_vars

\* bound: the notes of a file with runs of short notes
MaxBeamNotes == 6

\* sixteenths on the first five sixteenths of a measure, a chord tone on the second, an
\* eighth after them and a quarter on the third beat
BeamCandidates ==
    {Note(60, 0, ticks_per_sixteenth, 64), Note(62, ticks_per_sixteenth, ticks_per_sixteenth, 64),
     Note(64, 2 * ticks_per_sixteenth, ticks_per_sixteenth, 64),
     Note(65, 3 * ticks_per_sixteenth, ticks_per_sixteenth, 64),
     Note(67, 4 * ticks_per_sixteenth, ticks_per_sixteenth, 64),
     Note(72, ticks_per_sixteenth, ticks_per_sixteenth, 64),
     Note(69, 5 * ticks_per_sixteenth, 2 * ticks_per_sixteenth, 64),
     Note(71, 8 * ticks_per_sixteenth, 4 * ticks_per_sixteenth, 64)}

BInit == \E notes \in SubsetsUpTo(BeamCandidates, MaxBeamNotes) : ExportEntry(notes)

\* the exporter on the files of BeamCandidates
SpecBeam == BInit /\ [][XNext]_vars

\* ------------------------------------------------------------------------
\* chord_detector.py: CHORD_TEMPLATES, in declaration order
\* ------------------------------------------------------------------------
Qualities == <<"major", "minor", "dim", "aug", "sus4", "sus2", "7", "maj7", "m7">>

CHORD_TEMPLATES ==
    [q \in {Qualities[k] : k \in 1..Len(Qualities)} |->
        CASE q = "major" -> {0, 4, 7}
          [] q = "minor" -> {0, 3, 7}
          [] q = "dim"   -> {0, 3, 6}
          [] q = "aug"   -> {0, 4, 8}
          [] q = "sus4"  -> {0, 5, 7}
          [] q = "sus2"  -> {0, 2, 7}
          [] q = "7"     -> {0, 4, 7, 10}
          [] q = "maj7"  -> {0, 4, 7, 11}
          [] q = "m7"    -> {0, 3, 7, 10}]

\* the sum of a function over the pitch classes 0..11
Sum12(f) == f[0] + f[1] + f[2] + f[3] + f[4] + f[5] + f[6] + f[7] + f[8] + f[9] + f[10] + f[11]

\* ------------------------------------------------------------------------
\* ChordDetector._match_chord
\* ------------------------------------------------------------------------
\* TemplateScore100 without the 1.1 bonus of major and minor
TemplateScore100NoBonus(w, root, quality) ==
    LET template == CHORD_TEMPLATES[quality]
        score == Sum12([i \in 0..11 |-> IF i \in template THEN w[(root + i) % 12] ELSE 0])
        non_chord_weight ==
            Sum12([i \in 0..11 |-> IF i \notin template THEN w[(root + i) % 12] ELSE 0])
    IN  10 * (10 * score - 3 * non_chord_weight)

\* TemplateScore100 with the 1.1 bonus given to the other qualities instead
TemplateScore100BonusToOthers(w, root, quality) ==
    LET template == CHORD_TEMPLATES[quality]
        score == Sum12([i \in 0..11 |-> IF i \in template THEN w[(root + i) % 12] ELSE 0])
        non_chord_weight ==
            Sum12([i \in 0..11 |-> IF i \notin template THEN w[(root + i) % 12] ELSE 0])
        penalized == 10 * score - 3 * non_chord_weight
    IN  IF quality \in {"major", "minor"} THEN 10 * penalized ELSE 11 * penalized

\* the score of one (root, quality), times 100: the penalty 0.3 is 3/10 and
\* the bonus 1.1 is 11/10.  w is indexed by pitch class 0..11.
TemplateScore100(w, root, quality) ==
    LET template == CHORD_TEMPLATES[quality]
        score == Sum12([i \in 0..11 |-> IF i \in template THEN w[(root + i) % 12] ELSE 0])
        non_chord_weight ==
            Sum12([i \in 0..11 |-> IF i \notin template THEN w[(root + i) % 12] ELSE 0])
        penalized == 10 * score - 3 * non_chord_weight
    IN  IF quality \in {"major", "minor"} THEN 11 * penalized ELSE 10 * penalized

\* QualityLoop updating on score >= best_score: a later equal score wins
RECURSIVE QualityLoopLastWins(_, _, _, _)
QualityLoopLastWins(w, root, k, best) ==
    IF k > Len(Qualities) THEN best
    ELSE LET score == TemplateScore100(w, root, Qualities[k])
         IN  IF score >= best.score
             THEN QualityLoopLastWins(w, root, k + 1,
                      [score |-> score, root |-> root, quality |-> Qualities[k]])
             ELSE QualityLoopLastWins(w, root, k + 1, best)

\* `for quality, template in CHORD_TEMPLATES.items()`, from quality k on,
\* with `if score > best_score` updating the best so far
RECURSIVE QualityLoop(_, _, _, _)
QualityLoop(w, root, k, best) ==
    IF k > Len(Qualities) THEN best
    ELSE LET score == TemplateScore100(w, root, Qualities[k])
         IN  IF score > best.score
             THEN QualityLoop(w, root, k + 1,
                      [score |-> score, root |-> root, quality |-> Qualities[k]])
             ELSE QualityLoop(w, root, k + 1, best)

\* `for root in range(12)`, from root on
RECURSIVE RootLoop(_, _, _)
RootLoop(w, root, best) ==
    IF root > 11 THEN best
    ELSE RootLoop(w, root + 1, QualityLoop(w, root, 1, best))

\* best_score = -1.0, best_root = 0, best_quality = "major"
_match_chord(w, start, end) ==
    LET best == RootLoop(w, 0, [score |-> -100, root |-> 0, quality |-> "major"])
    IN  [root |-> best.root, quality |-> best.quality, start_time |-> start, end_time |-> end]

\* ------------------------------------------------------------------------
\* ChordDetector.detect_chords
\* ------------------------------------------------------------------------
\* seconds_per_beat * beats_per_measure, in time units
MeasureDuration(bpm) == UnitsPerBeat * bpm

\* max(n.end for n in all_notes)
TotalDuration(notes) ==
    CHOOSE t \in {n.end : n \in notes} : \A n \in notes : n.end <= t

\* max(1, int(total_duration / measure_duration)) : the count without the + 1
MeasureCountFloor(notes, bpm) ==
    Max(1, TotalDuration(notes) \div MeasureDuration(bpm))

\* max(1, int(total_duration / measure_duration) + 1)
MeasureCount(notes, bpm) ==
    Max(1, TotalDuration(notes) \div MeasureDuration(bpm) + 1)

\* the overlap of one note with [start, end), 0 when it is skipped
Overlap(note, start, end) ==
    IF note.end <= start \/ note.start >= end THEN 0
    ELSE Min(note.end, end) - Max(note.start, start)

\* the sum of Overlap over a set of notes
RECURSIVE OverlapSum(_, _, _)
OverlapSum(notes, start, end) ==
    IF notes = {} THEN 0
    ELSE LET n == CHOOSE x \in notes : TRUE
         IN  Overlap(n, start, end) + OverlapSum(notes \ {n}, start, end)

\* pitch_class_weight after the loop over all_notes
PitchClassWeight(notes, start, end) ==
    [pc \in 0..11 |-> OverlapSum({n \in notes : n.pitch % 12 = pc}, start, end)]

\* the input note sets of the chord detector (times in units of a beat / UnitsPerBeat)
ChordCandidates ==
    {[pitch |-> p, start |-> sp[1], end |-> sp[2], velocity |-> 64] :
        p \in {60, 63, 64, 67, 70},
        sp \in {<<0, 8>>, <<2, 12>>, <<17, 18>>}}

CInit ==
    /\ all_notes \in SubsetsUpTo(ChordCandidates, MaxChordNotes)
    /\ beats_per_measure \in {3, 4}
    /\ cpc = "start"
    /\ m = 0
    /\ weights = <<>>
    /\ chords = <<>>
    /\ XIdle
    /\ AIdle
    /\ GIdle
    /\ PIdle
    /\ QIdle
    /\ LIdle

\* a detector at the early return: one default chord over the first measure
DetectNothingDefaultChord ==
    /\ cpc = "start"
    /\ all_notes = {}
    /\ cpc' = "done"
    /\ chords' = <<_match_chord([pc \in 0..11 |-> 0], 0, MeasureDuration(beats_per_measure))>>
    /\ UNCHANGED <<all_notes, beats_per_measure, m, weights>>
    /\ UNCHANGED COthers

\* `if not all_notes: return []`
DetectNothing ==
    /\ cpc = "start"
    /\ all_notes = {}
    /\ cpc' = "done"
    /\ UNCHANGED <<all_notes, beats_per_measure, m, weights, chords>>
    /\ UNCHANGED COthers

\* total_duration, measure_duration and measure_count are computed
DetectStart ==
    /\ cpc = "start"
    /\ all_notes # {}
    /\ cpc' = "loop"
    /\ UNCHANGED <<all_notes, beats_per_measure, m, weights, chords>>
    /\ UNCHANGED COthers

\* one iteration of `for m in range(measure_count)`
DetectMeasure ==
    /\ cpc = "loop"
    /\ m < MeasureCount(all_notes, beats_per_measure)
    /\ LET start == m * MeasureDuration(beats_per_measure)
           end == (m + 1) * MeasureDuration(beats_per_measure)
           pitch_class_weight == PitchClassWeight(all_notes, start, end)
       IN  /\ weights' = Append(weights, pitch_class_weight)
           /\ chords' = Append(chords, _match_chord(pitch_class_weight, start, end))
    /\ m' = m + 1
    /\ UNCHANGED <<all_notes, beats_per_measure, cpc>>
    /\ UNCHANGED COthers

\* `return chords`
DetectReturn ==
    /\ cpc = "loop"
    /\ m = MeasureCount(all_notes, beats_per_measure)
    /\ cpc' = "done"
    /\ UNCHANGED <<all_notes, beats_per_measure, m, weights, chords>>
    /\ UNCHANGED COthers

CNext == DetectNothing \/ DetectStart \/ DetectMeasure \/ DetectReturn

SpecChords == CInit /\ [][CNext]_vars

\* the three notes of a triad on `root`, sounding together over `span`
TriadNotes(root, third, span) ==
    {[pitch |-> 48 + root + i, start |-> span[1], end |-> span[2], velocity |-> 64] :
        i \in {0, third, 7}}

\* inputs holding one major or minor triad on each of the 12 roots, or nothing
TriadInit ==
    /\ all_notes \in {TriadNotes(root, third, span) :
                        root \in 0..11, third \in {3, 4},
                        span \in {<<0, 8>>, <<2, 12>>, <<0, 3>>}} \cup {{}}
    /\ beats_per_measure \in {3, 4}
    /\ cpc = "start"
    /\ m = 0
    /\ weights = <<>>
    /\ chords = <<>>
    /\ XIdle
    /\ AIdle
    /\ GIdle
    /\ PIdle
    /\ QIdle
    /\ LIdle

SpecTriads == TriadInit /\ [][CNext]_vars

\* ------------------------------------------------------------------------
\* ArrangementPatterns (services/arrangement_patterns.py)
\* ------------------------------------------------------------------------
\* bound: the longest piece, in measures
MaxMeasures == 26

DEFAULT_VELOCITY == 65
CHORUS_VELOCITY_THRESHOLD == 75
CHORUS_DENSITY_THRESHOLD == 2

\* densities, average velocities and ratios are fractions num / den, den > 0
Rat(num, den) == [num |-> num, den |-> den]
RLess(a, b) == a.num * b.den < b.num * a.den
RGreater(a, b) == RLess(b, a)
RPlus(a, b) == Rat(a.num * b.den + b.num * a.den, a.den * b.den)
RAbsDiff(a, b) == Rat(Abs(a.num * b.den - b.num * a.den), a.den * b.den)

INTRO_RATIO == Rat(8, 100)
OUTRO_RATIO == Rat(92, 100)

\* a right-hand note; times in milliseconds
RhNote(pitch, start, end, velocity) ==
    [pitch |-> pitch, start |-> start, end |-> end, velocity |-> velocity]

\* max(pitches) - min(pitches) of a non-empty sequence of notes
PitchSpan(rh_notes) ==
    LET ps == {rh_notes[k].pitch : k \in 1..Len(rh_notes)}
    IN  (CHOOSE hi \in ps : \A p \in ps : p <= hi)
        - (CHOOSE lo \in ps : \A p \in ps : lo <= p)

\* `density` of the loop body of _analyze_contexts
Density(rh_notes, bpm) == Rat(Len(rh_notes), Max(bpm, 1))

\* `avg_vel` of the loop body of _analyze_contexts
AvgVel(rh_notes) ==
    IF rh_notes # <<>>
    THEN Rat(SumSeq([k \in 1..Len(rh_notes) |-> rh_notes[k].velocity]), Len(rh_notes))
    ELSE Rat(70, 1)

\* the MeasureContext that _analyze_contexts appends for measure i, given the
\* right-hand notes _get_rh_notes_in_range returned for it;
\* (n.end - n.start) > 60.0 / tempo * 2 in seconds is (end - start) * tempo > 120000
\* in milliseconds
MeasureContextOf(i, total, rh_notes, tempo, bpm, prev_density, prev_velocity) ==
    [measure_index    |-> i,
     note_density     |-> Density(rh_notes, bpm),
     avg_velocity     |-> AvgVel(rh_notes),
     pitch_range      |-> IF Len(rh_notes) > 1 THEN PitchSpan(rh_notes) ELSE 0,
     has_sustained    |-> \E k \in 1..Len(rh_notes) :
                              (rh_notes[k].end - rh_notes[k].start) * tempo > 120000,
     tempo            |-> tempo,
     is_first_measure |-> (i = 0),
     is_last_measure  |-> (i = total - 1),
     total_measures   |-> total,
     prev_density     |-> prev_density,
     prev_velocity    |-> prev_velocity]

\* ctx.measure_index / max(ctx.total_measures - 1, 1)
Position(c) == Rat(c.measure_index, Max(c.total_measures - 1, 1))

_is_section_transition(c) ==
    LET density_jump == RGreater(RAbsDiff(c.note_density, c.prev_density), Rat(3, 2))
        velocity_jump == RGreater(RAbsDiff(c.avg_velocity, c.prev_velocity), Rat(15, 1))
    IN  density_jump \/ velocity_jump

\* _choose_pattern from the tempo tests on (the rules after the section
\* transition test)
ChooseByTempo(c) ==
    LET tempo == c.tempo
        density == c.note_density
        velocity == c.avg_velocity
    IN  IF tempo < 90 THEN
            IF c.has_sustained THEN "arpeggio_up"
            ELSE IF RGreater(velocity, Rat(CHORUS_VELOCITY_THRESHOLD, 1)) THEN "power_octave"
            ELSE "octave_root"
        ELSE IF tempo < 110 THEN
            IF RGreater(velocity, Rat(80, 1))
               /\ RGreater(density, Rat(CHORUS_DENSITY_THRESHOLD, 1)) THEN "power_octave"
            ELSE IF RGreater(velocity, Rat(75, 1)) THEN "stride"
            ELSE IF RLess(density, Rat(3, 2)) THEN "arpeggio_up"
            ELSE "broken_chord"
        ELSE IF tempo < 140 THEN
            IF RGreater(velocity, Rat(CHORUS_VELOCITY_THRESHOLD, 1))
               /\ RGreater(density, Rat(CHORUS_DENSITY_THRESHOLD, 1)) THEN "power_octave"
            ELSE IF RGreater(density, RPlus(c.prev_density, Rat(1, 2)))
                    /\ RGreater(velocity, Rat(65, 1)) THEN "oom_pah"
            ELSE IF RLess(density, Rat(CHORUS_DENSITY_THRESHOLD, 1)) THEN "broken_chord"
            ELSE "alberti_bass"
        ELSE
            IF RGreater(velocity, Rat(80, 1)) /\ RGreater(density, Rat(3, 1)) THEN "tremolo_chord"
            ELSE IF RGreater(density, Rat(3, 1)) THEN "ostinato"
            ELSE IF RGreater(velocity, Rat(80, 1)) THEN "stride"
            ELSE "alberti_bass"

\* _choose_pattern without the section transition test
ChooseIgnoringTransition(c) ==
    LET position == Position(c)
    IN  IF RLess(position, INTRO_RATIO) THEN
            IF c.is_first_measure THEN "root_fifth" ELSE "octave_root"
        ELSE IF RGreater(position, OUTRO_RATIO) THEN
            IF c.is_last_measure THEN "block_chord" ELSE "arpeggio_up"
        ELSE ChooseByTempo(c)

\* the context is never None in generate: contexts has one entry per chord
_choose_pattern(c) ==
    LET position == Position(c)
    IN  IF RLess(position, INTRO_RATIO) THEN
            IF c.is_first_measure THEN "root_fifth" ELSE "octave_root"
        ELSE IF RGreater(position, OUTRO_RATIO) THEN
            IF c.is_last_measure THEN "block_chord" ELSE "arpeggio_up"
        ELSE IF _is_section_transition(c) THEN "ostinato"
        ELSE ChooseByTempo(c)

\* the values int((ratio - OUTRO_RATIO) / (1.0 - OUTRO_RATIO) * 20) can take.
\* The exact quotient is num / den below.  ratio, 0.92 and 1.0 - 0.92 are
\* binary floating-point numbers, so the computed quotient is the exact one up
\* to rounding: truncation gives the exact floor unless the exact quotient is
\* an integer, where it gives that integer or the one below.  For ratio = 1.0
\* dividend and divisor are the same number and the result is exactly 20.
Fades(c) ==
    LET d   == Max(c.total_measures - 1, 1)
        num == (100 * c.measure_index - 92 * d) * 20
        den == 8 * d
    IN  IF num % den # 0 THEN {num \div den}
        ELSE IF c.measure_index = d THEN {20}
        ELSE {num \div den - 1, num \div den}

\* the set of values _adjust_velocity can return
_adjust_velocity(base, c) ==
    LET ratio == Position(c)
    IN  IF RLess(ratio, INTRO_RATIO) THEN {Max(40, base - 15)}
        ELSE IF RGreater(ratio, OUTRO_RATIO) THEN {Max(35, base - fade) : fade \in Fades(c)}
        ELSE IF RGreater(c.avg_velocity, Rat(CHORUS_VELOCITY_THRESHOLD, 1))
             THEN {Min(100, base + 10)}
        ELSE {base}

\* n right-hand notes of one measure, all of velocity v, the first one held
\* for two seconds when `long`
MeasureNotes(n, v, long) ==
    [k \in 1..n |-> RhNote(60 + k, 0, IF long /\ k = 1 THEN 2000 ELSE 100, v)]

\* the context of measure i of `total`, from the notes of the measure and of
\* the measure before it (prev_density and prev_velocity start at 0.0)
ContextFor(i, total, rh_notes, prev_notes, tempo, bpm) ==
    MeasureContextOf(i, total, rh_notes, tempo, bpm,
                     IF i = 0 THEN Rat(0, 1) ELSE Density(prev_notes, bpm),
                     IF i = 0 THEN Rat(0, 1) ELSE AvgVel(prev_notes))

\* contexts that exercise the pattern rules, with the default velocity
PatternContexts ==
    {ContextFor(i, total, MeasureNotes(n, v, long), MeasureNotes(pn, pv, FALSE), tempo, 4) :
        <<total, i>> \in {p \in {1, 2, 3, MaxMeasures} \X (0..(MaxMeasures - 1)) : p[2] < p[1]},
        tempo \in {89, 90, 109, 110, 139, 140},
        n \in {0, 5, 6, 8, 9, 12, 13}, v \in {60, 66, 76, 80, 81}, long \in BOOLEAN,
        pn \in {0, 6, 13}, pv \in {60, 70, 81}}

\* contexts of every position of every piece length, for the velocity rules
VelocityContexts ==
    {ContextFor(i, total, MeasureNotes(n, v, FALSE), <<>>, 120, 4) :
        <<total, i>> \in {p \in (1..MaxMeasures) \X (0..(MaxMeasures - 1)) : p[2] < p[1]},
        n \in {0, 1}, v \in {75, 76}}

AInit ==
    /\ \/ /\ ctx \in PatternContexts
          /\ pattern = "adaptive"
          /\ base_velocity = DEFAULT_VELOCITY
       \/ /\ ctx \in VelocityContexts
          /\ pattern \in {"adaptive", "broken_chord"}
          /\ base_velocity \in {0, 30, 45, 55, 65, 90, 91, 100, 127}
    /\ apc = "measure"
    /\ chosen = "none"
    /\ adjusted_velocity = 0
    /\ XIdle
    /\ CIdle
    /\ GIdle
    /\ PIdle
    /\ QIdle
    /\ LIdle

\* one iteration of the loop of generate, up to the call of the generator
GenerateMeasure ==
    /\ apc = "measure"
    /\ chosen' = IF pattern = "adaptive" THEN _choose_pattern(ctx) ELSE pattern
    /\ adjusted_velocity' \in _adjust_velocity(base_velocity, ctx)
    /\ apc' = "generated"
    /\ UNCHANGED <<ctx, pattern, base_velocity>>
    /\ UNCHANGED AOthers

ANext == GenerateMeasure

SpecArrange == AInit /\ [][ANext]_vars

\* ------------------------------------------------------------------------
\* ArrangementPatterns: the pattern generators.  Times are in milliseconds;
\* x * num / den is exact for the beat lengths of the model.
\* ------------------------------------------------------------------------
DEFAULT_OCTAVE == 3

Frac(x, num, den) == (x * num) \div den

Chord(root, quality, start_time, end_time) ==
    [root |-> root, quality |-> quality, start_time |-> start_time, end_time |-> end_time]

NoteEvent(pitch, start, end, velocity) ==
    [pitch |-> pitch, start |-> start, end |-> end, velocity |-> velocity]

\* Chord.pitches_in_octave: CHORD_TEMPLATES.get(quality, {0, 4, 7}), sorted
pitches_in_octave(chord, octave) ==
    LET base == (octave + 1) * 12
        template == IF chord.quality \in DOMAIN templates
                    THEN templates[chord.quality] ELSE {0, 4, 7}
    IN  IntSetToSeq({base + chord.root + interval : interval \in template})

\* s[:n] of a Python list
Prefix(s, n) == SubSeq(s, 1, Min(Len(s), Max(n, 0)))

_root_fifth(chord, spb, bpm, octave, velocity) ==
    LET root == (octave + 1) * 12 + chord.root
        fifth == root + 7
        first == <<NoteEvent(root, chord.start_time, chord.start_time + Frac(spb, 18, 10), velocity),
                   NoteEvent(fifth, chord.start_time, chord.start_time + Frac(spb, 18, 10), velocity)>>
    IN  IF bpm >= 4
        THEN Append(first, NoteEvent(root, chord.start_time + 2 * spb,
                                     chord.start_time + Frac(spb, 35, 10), velocity - 10))
        ELSE first

\* a broken chord that always gives the root+fifth figure, five steps softer
BrokenChordSofterFallback(chord, spb, bpm, octave, velocity) ==
    _root_fifth(chord, spb, bpm, octave, velocity - 5)

_broken_chord(chord, spb, bpm, octave, velocity) ==
    LET pitches == pitches_in_octave(chord, octave)
    IN  IF Len(pitches) < 3 THEN _root_fifth(chord, spb, bpm, octave, velocity)
        ELSE LET sequence == Prefix(<<pitches[1], pitches[2], pitches[3], pitches[2]>>, bpm)
             IN  [k \in 1..Len(sequence) |->
                    NoteEvent(sequence[k],
                              chord.start_time + (k - 1) * spb,
                              chord.start_time + Frac(spb, 10 * (k - 1) + 9, 10),
                              velocity - (IF (k - 1) % 2 = 1 THEN 5 ELSE 0))]

_alberti_bass(chord, spb, bpm, octave, velocity) ==
    LET pitches == pitches_in_octave(chord, octave)
    IN  IF Len(pitches) < 3 THEN _broken_chord(chord, spb, bpm, octave, velocity)
        ELSE LET low == pitches[1]
                 mid == pitches[2]
                 high == pitches[3]
                 pattern_seq == <<low, high, mid, high, low, high, mid, high>>
                 total_eighths == bpm * 2
             IN  [k \in 1..Max(Min(total_eighths, Len(pattern_seq)), 0) |->
                    NoteEvent(pattern_seq[((k - 1) % Len(pattern_seq)) + 1],
                              chord.start_time + Frac(spb, k - 1, 2),
                              chord.start_time + Frac(spb, 100 * (k - 1) + 85, 200),
                              velocity - (IF (k - 1) % 2 = 1 THEN 8 ELSE 0))]

_octave_root(chord, spb, bpm, octave, velocity) ==
    LET root_low == (octave + 1) * 12 + chord.root
        root_high == root_low + 12
        first == <<NoteEvent(root_low, chord.start_time,
                             chord.start_time + Frac(spb, 18, 10), velocity)>>
    IN  IF bpm >= 3
        THEN Append(first, NoteEvent(root_high, chord.start_time + 2 * spb,
                                     chord.start_time + Frac(spb, 38, 10), velocity - 10))
        ELSE first

_block_chord(chord, spb, bpm, octave, velocity) ==
    LET pitches == pitches_in_octave(chord, octave)
        positions == IF bpm >= 4 THEN <<0, 2 * spb>> ELSE <<0>>
        At(pos) == [k \in 1..Len(pitches) |->
                      NoteEvent(pitches[k], chord.start_time + pos,
                                Min(chord.start_time + pos + Frac(spb, 18, 10), chord.end_time),
                                velocity)]
    IN  Flatten([j \in 1..Len(positions) |-> At(positions[j])])

_arpeggio_up(chord, spb, bpm, octave, velocity) ==
    LET pitches == pitches_in_octave(chord, octave)
        high_root == pitches[1] + 12
        arp_pitches == Append(pitches, high_root)
        n == Len(arp_pitches)
    IN  [k \in 1..n |->
            NoteEvent(arp_pitches[k],
                      chord.start_time + Frac(spb * bpm, k - 1, n),
                      chord.start_time + Frac(spb * bpm, 10 * (k - 1) + 9, 10 * n),
                      velocity - 5 + (k - 1) * 2)]

_stride(chord, spb, bpm, octave, velocity) ==
    LET root_low == (octave + 1) * 12 + chord.root
        chord_pitches == pitches_in_octave(chord, octave + 1)
        Beat(beat) ==
            LET start == chord.start_time + beat * spb
            IN  IF beat % 2 = 0
                THEN <<NoteEvent(root_low, start, start + Frac(spb, 85, 100), velocity),
                       NoteEvent(root_low + 12, start, start + Frac(spb, 85, 100), velocity)>>
                ELSE LET ps == Prefix(chord_pitches, 3)
                     IN  [k \in 1..Len(ps) |->
                            NoteEvent(ps[k], start, start + Frac(spb, 75, 100), velocity - 8)]
    IN  Flatten([b \in 1..Max(Min(bpm, 4), 0) |-> Beat(b - 1)])

_walking_bass(chord, spb, bpm, octave, velocity) ==
    LET root == (octave + 1) * 12 + chord.root
        pitches == pitches_in_octave(chord, octave)
        walk_sequence == <<pitches[1],
                           IF Len(pitches) > 1 THEN pitches[2] ELSE root + 4,
                           IF Len(pitches) > 2 THEN pitches[3] ELSE root + 7,
                           pitches[1] + 12 - 1>>
    IN  [k \in 1..Max(Min(bpm, Len(walk_sequence)), 0) |->
            NoteEvent(walk_sequence[k],
                      chord.start_time + (k - 1) * spb,
                      chord.start_time + Frac(spb, 100 * (k - 1) + 85, 100),
                      velocity - (IF (k - 1) % 2 = 1 THEN 3 ELSE 0))]

_oom_pah(chord, spb, bpm, octave, velocity) ==
    LET root == (octave + 1) * 12 + chord.root
        chord_pitches == pitches_in_octave(chord, octave)
        Beat(beat) ==
            LET start == chord.start_time + beat * spb
            IN  IF beat % 2 = 0
                THEN <<NoteEvent(root, start, start + Frac(spb, 8, 10), velocity)>>
                ELSE LET ps == Prefix(chord_pitches, 3)
                     IN  [k \in 1..Len(ps) |->
                            NoteEvent(ps[k], start, start + Frac(spb, 7, 10), velocity - 10)]
    IN  Flatten([b \in 1..Max(Min(bpm, 4), 0) |-> Beat(b - 1)])

_ostinato(chord, spb, bpm, octave, velocity) ==
    LET root == (octave + 1) * 12 + chord.root
        fifth == root + 7
        octave_up == root + 12
        pattern_seq == <<root, root, fifth, root, octave_up, root, fifth, root>>
        total_sixteenths == bpm * 4
    IN  [k \in 1..Max(Min(total_sixteenths, 16), 0) |->
            NoteEvent(pattern_seq[((k - 1) % Len(pattern_seq)) + 1],
                      chord.start_time + Frac(spb, k - 1, 4),
                      chord.start_time + Frac(spb, 10 * (k - 1) + 8, 40),
                      Min(100, velocity - 10 + Min(k - 1, 8) * 1))]

_power_octave(chord, spb, bpm, octave, velocity) ==
    LET root_low == (octave + 1) * 12 + chord.root
        root_high == root_low + 12
        pitches == pitches_in_octave(chord, octave)
        third == IF Len(pitches) > 1 THEN pitches[2] ELSE root_low + 4
        fifth == IF Len(pitches) > 2 THEN pitches[3] ELSE root_low + 7
        st == chord.start_time
        first == <<NoteEvent(root_low, st, st + Frac(spb, 9, 10), velocity),
                   NoteEvent(root_high, st, st + Frac(spb, 9, 10), velocity),
                   NoteEvent(third, st + Frac(spb, 5, 10), st + Frac(spb, 9, 10), velocity - 12),
                   NoteEvent(fifth, st + spb, st + Frac(spb, 185, 100), velocity - 8)>>
        second == <<NoteEvent(root_low, st + 2 * spb, st + Frac(spb, 29, 10), velocity - 5),
                    NoteEvent(root_high, st + 2 * spb, st + Frac(spb, 29, 10), velocity - 5),
                    NoteEvent(third, st + Frac(spb, 25, 10), st + Frac(spb, 29, 10), velocity - 15),
                    NoteEvent(fifth, st + 3 * spb, st + Frac(spb, 385, 100), velocity - 10)>>
    IN  IF bpm >= 4 THEN first \o second ELSE first

_tremolo_chord(chord, spb, bpm, octave, velocity) ==
    LET pitches == pitches_in_octave(chord, octave)
    IN  IF Len(pitches) < 3 THEN _power_octave(chord, spb, bpm, octave, velocity)
        ELSE LET root == pitches[1]
                 group_a == <<root, pitches[3]>>
                 group_b == <<pitches[2], root + 12>>
                 total_eighths == bpm * 2
                 Step(i) ==
                    LET group == IF i % 2 = 0 THEN group_a ELSE group_b
                        start == chord.start_time + Frac(spb, i, 2)
                    IN  [k \in 1..2 |->
                            NoteEvent(group[k], start, start + Frac(spb, 8, 20),
                                      velocity - (IF i % 2 = 1 THEN 5 ELSE 0))]
             IN  Flatten([e \in 1..Max(Min(total_eighths, 8), 0) |-> Step(e - 1)])

\* the pattern names _get_generator knows
KnownPatterns ==
    {"broken_chord", "alberti_bass", "octave_root", "block_chord", "arpeggio_up", "root_fifth",
     "stride", "walking_bass", "oom_pah", "ostinato", "power_octave", "tremolo_chord"}

\* a table whose default is the root+fifth generator
GeneratorDefaultsToRootFifth(name, chord, spb, bpm, octave, velocity) ==
    CASE name = "broken_chord"  -> _broken_chord(chord, spb, bpm, octave, velocity)
      [] name = "alberti_bass"  -> _alberti_bass(chord, spb, bpm, octave, velocity)
      [] name = "octave_root"   -> _octave_root(chord, spb, bpm, octave, velocity)
      [] name = "block_chord"   -> _block_chord(chord, spb, bpm, octave, velocity)
      [] name = "arpeggio_up"   -> _arpeggio_up(chord, spb, bpm, octave, velocity)
      [] name = "root_fifth"    -> _root_fifth(chord, spb, bpm, octave, velocity)
      [] name = "stride"        -> _stride(chord, spb, bpm, octave, velocity)
      [] name = "walking_bass"  -> _walking_bass(chord, spb, bpm, octave, velocity)
      [] name = "oom_pah"       -> _oom_pah(chord, spb, bpm, octave, velocity)
      [] name = "ostinato"      -> _ostinato(chord, spb, bpm, octave, velocity)
      [] name = "power_octave"  -> _power_octave(chord, spb, bpm, octave, velocity)
      [] name = "tremolo_chord" -> _tremolo_chord(chord, spb, bpm, octave, velocity)
      [] OTHER                  -> _root_fifth(chord, spb, bpm, octave, velocity)

\* _get_generator(pattern) applied to the arguments: generators.get(pattern, self._broken_chord)
Generator(name, chord, spb, bpm, octave, velocity) ==
    CASE name = "broken_chord"  -> _broken_chord(chord, spb, bpm, octave, velocity)
      [] name = "alberti_bass"  -> _alberti_bass(chord, spb, bpm, octave, velocity)
      [] name = "octave_root"   -> _octave_root(chord, spb, bpm, octave, velocity)
      [] name = "block_chord"   -> _block_chord(chord, spb, bpm, octave, velocity)
      [] name = "arpeggio_up"   -> _arpeggio_up(chord, spb, bpm, octave, velocity)
      [] name = "root_fifth"    -> _root_fifth(chord, spb, bpm, octave, velocity)
      [] name = "stride"        -> _stride(chord, spb, bpm, octave, velocity)
      [] name = "walking_bass"  -> _walking_bass(chord, spb, bpm, octave, velocity)
      [] name = "oom_pah"       -> _oom_pah(chord, spb, bpm, octave, velocity)
      [] name = "ostinato"      -> _ostinato(chord, spb, bpm, octave, velocity)
      [] name = "power_octave"  -> _power_octave(chord, spb, bpm, octave, velocity)
      [] name = "tremolo_chord" -> _tremolo_chord(chord, spb, bpm, octave, velocity)
      [] OTHER                  -> _broken_chord(chord, spb, bpm, octave, velocity)

\* ------------------------------------------------------------------------
\* ArrangementPatterns.generate
\* ------------------------------------------------------------------------
\* bounds: the longest chord list and the most right-hand notes of a call
MaxGenChords == 2
MaxRhNotes == 2

\* [n for n in notes if n.start >= start - 0.01 and n.start < end], in milliseconds
_get_rh_notes_in_range(notes, start, end) ==
    LET InRange(n) == n.start >= start - 10 /\ n.start < end
    IN  SelectSeq(notes, InRange)

_analyze_contexts(chord_list, right_hand_notes, tempo, bpm) ==
    LET total == Len(chord_list)
        RhOf(i) == _get_rh_notes_in_range(right_hand_notes, chord_list[i].start_time,
                                          chord_list[i].end_time)
    IN  [i \in 1..total |->
            ContextFor(i - 1, total, RhOf(i), IF i > 1 THEN RhOf(i - 1) ELSE <<>>, tempo, bpm)]

\* seconds_per_beat = 60.0 / tempo, in milliseconds
SecondsPerBeat(tempo) == 60000 \div tempo

\* the chord lists detect_chords can return: chord k spans measure k
RECURSIVE ChordLists(_, _, _)
ChordLists(n, measure_duration, choices) ==
    IF n = 0 THEN {<<>>}
    ELSE {Append(cs, Chord(c[1], c[2], (n - 1) * measure_duration, n * measure_duration)) :
            cs \in ChordLists(n - 1, measure_duration, choices), c \in choices}

ChordListsUpTo(n, measure_duration, choices) ==
    UNION {ChordLists(k, measure_duration, choices) : k \in 0..n}

\* CHORD_TEMPLATES with one more entry, a fifth without a third
PowerTemplates ==
    [q \in DOMAIN CHORD_TEMPLATES \cup {"power"} |->
        IF q = "power" THEN {0, 7} ELSE CHORD_TEMPLATES[q]]

GenArgs(chord_list, tempo, bpm, octave, right_hand_notes) ==
    [chords |-> chord_list, tempo |-> tempo, beats_per_measure |-> bpm, octave |-> octave,
     right_hand_notes |-> right_hand_notes]

\* calls over every pattern selector, without right-hand notes
GeneratorCalls ==
    {<<tp, GenArgs(cs, tempo, bpm, DEFAULT_OCTAVE, <<>>), p, v>> :
        tp \in {CHORD_TEMPLATES, PowerTemplates},
        <<tempo, bpm, cs>> \in
            UNION {{<<t, b, cs>> : cs \in ChordListsUpTo(MaxGenChords, SecondsPerBeat(t) * b,
                                       {<<0, "major">>, <<11, "m7">>, <<0, "power">>, <<11, "power">>})} :
                   <<t, b>> \in {50, 100} \X {3, 4}},
        p \in KnownPatterns \cup {"adaptive", "waltz"},
        v \in {DEFAULT_VELOCITY, 100}}

\* right-hand notes around the barlines of two measures of 2400 ms
RhCandidates ==
    {RhNote(p, s, s + 300, 70) : p \in {60, 72}, s \in {0, 2390, 2395, 2400, 4790}}

\* adaptive calls with right-hand notes, at 100 BPM
ContextCalls ==
    {<<CHORD_TEMPLATES, GenArgs(cs, 100, 4, DEFAULT_OCTAVE, SetToSeq(rh)), "adaptive", DEFAULT_VELOCITY>> :
        cs \in ChordListsUpTo(MaxGenChords, 2400, {<<0, "major">>}),
        rh \in SubsetsUpTo(RhCandidates, MaxRhNotes)}

\* one C major chord over one 4-beat measure at 120 BPM, power octave, octave 3, velocity 65
ScenarioCall ==
    <<CHORD_TEMPLATES, GenArgs(<<Chord(0, "major", 0, 2000)>>, 120, 4, 3, <<>>), "power_octave", 65>>

GInit ==
    /\ \E call \in GeneratorCalls \cup ContextCalls \cup {ScenarioCall} :
          /\ templates = call[1]
          /\ gen = call[2]
          /\ pattern = call[3]
          /\ base_velocity = call[4]
    /\ contexts = <<>> /\ gi = 0 /\ gen_events = <<>> /\ all_events = <<>> /\ gpc = "start"
    /\ ctx = <<>> /\ apc = "idle" /\ chosen = "none" /\ adjusted_velocity = 0
    /\ XIdle
    /\ CIdle
    /\ PIdle
    /\ QIdle
    /\ LIdle

\* generate up to the loop: contexts = self._analyze_contexts(...)
GenerateStart ==
    /\ gpc = "start"
    /\ contexts' = _analyze_contexts(gen.chords, gen.right_hand_notes, gen.tempo,
                                     gen.beats_per_measure)
    /\ gpc' = "loop"
    /\ UNCHANGED <<templates, gen, gi, gen_events, all_events>>
    /\ UNCHANGED <<xvars, cvars, avars, pvars, qvars, lvars>>

\* one iteration of `for i, chord in enumerate(chords)`
GenerateChord ==
    /\ gpc = "loop"
    /\ gi < Len(gen.chords)
    /\ LET c == contexts[gi + 1]
           picked == IF pattern = "adaptive" THEN _choose_pattern(c) ELSE pattern
       IN  /\ ctx' = c
           /\ chosen' = picked
           /\ adjusted_velocity' \in _adjust_velocity(base_velocity, c)
           /\ gen_events' = Generator(picked, gen.chords[gi + 1], SecondsPerBeat(gen.tempo),
                                       gen.beats_per_measure, gen.octave, adjusted_velocity')
           /\ all_events' = all_events \o gen_events'
    /\ gi' = gi + 1
    /\ UNCHANGED <<templates, gen, contexts, gpc>>
    /\ UNCHANGED <<pattern, base_velocity, apc>>
    /\ UNCHANGED <<xvars, cvars, pvars, qvars, lvars>>

\* return all_events
GenerateReturn ==
    /\ gpc = "loop"
    /\ gi = Len(gen.chords)
    /\ gpc' = "done"
    /\ UNCHANGED <<templates, gen, contexts, gi, gen_events, all_events>>
    /\ UNCHANGED <<xvars, cvars, avars, pvars, qvars, lvars>>

GNext == GenerateStart \/ GenerateChord \/ GenerateReturn

SpecGenerate == GInit /\ [][GNext]_vars

\* bound: the longest chord list of a call over the base velocities
MaxVelocityChords == 3

\* calls over every pattern at base velocities from the whole MIDI range 0..127;
\* a list of three chords has a measure that is neither intro nor outro
VelocityCalls ==
    {<<CHORD_TEMPLATES, GenArgs(cs, 100, 4, DEFAULT_OCTAVE, <<>>), p, v>> :
        cs \in ChordListsUpTo(MaxVelocityChords, 2400, {<<0, "major">>, <<11, "m7">>}),
        p \in KnownPatterns \cup {"adaptive"},
        v \in {0, 9, 64, 126, 127}}

VInit ==
    /\ \E call \in VelocityCalls :
          /\ templates = call[1]
          /\ gen = call[2]
          /\ pattern = call[3]
          /\ base_velocity = call[4]
    /\ contexts = <<>> /\ gi = 0 /\ gen_events = <<>> /\ all_events = <<>> /\ gpc = "start"
    /\ ctx = <<>> /\ apc = "idle" /\ chosen = "none" /\ adjusted_velocity = 0
    /\ XIdle
    /\ CIdle
    /\ PIdle
    /\ QIdle
    /\ LIdle

SpecVelocity == VInit /\ [][GNext]_vars

\* ------------------------------------------------------------------------
\* MidiConverter.create_two_hand_midi, then the hand split of midi_to_musicxml
\* ------------------------------------------------------------------------
\* bound: the notes of the MIDI handed to create_two_hand_midi
MaxPipelineNotes == 2

MIDDLE_C == 60

\* milliseconds per time unit of the chord detector
UnitMs(tempo) == SecondsPerBeat(tempo) \div UnitsPerBeat

\* a note or chord of the detector's time units, in milliseconds
NoteInMs(n, tempo) ==
    RhNote(n.pitch, n.start * UnitMs(tempo), n.end * UnitMs(tempo), n.velocity)
ChordInMs(c, tempo) ==
    Chord(c.root, c.quality, c.start_time * UnitMs(tempo), c.end_time * UnitMs(tempo))

\* split_hands: treble_notes, the notes with pitch >= split_note
split_hands(notes, split_note) ==
    SetToSeq({NoteInMs(n, midi_tempo) : n \in {x \in notes : x.pitch >= split_note}})

\* sorted(notes, key=lambda n: n.start)
SortByStart(notes) == StableSort(notes, [k \in 1..Len(notes) |-> notes[k].start])

\* the input MIDI files (times in units of a beat / UnitsPerBeat)
PipelineCandidates ==
    {[pitch |-> p, start |-> sp[1], end |-> sp[2], velocity |-> 64] :
        p \in {55, 60, 64, 67}, sp \in {<<0, 6>>, <<2, 9>>}}

PInit ==
    /\ all_notes \in SubsetsUpTo(PipelineCandidates, MaxPipelineNotes)
    /\ midi_tempo \in {50, 100}
    /\ pattern \in KnownPatterns \cup {"adaptive", "waltz"}
    /\ base_velocity = DEFAULT_VELOCITY
    /\ beats_per_measure = 4
    /\ cpc = "start" /\ m = 0 /\ weights = <<>> /\ chords = <<>>
    /\ ppc = "detect" /\ output = <<>> /\ staff_notes = <<>>
    /\ ctx = <<>> /\ apc = "idle" /\ chosen = "none" /\ adjusted_velocity = 0
    /\ GIdle
    /\ XIdle
    /\ QIdle
    /\ LIdle

\* create_two_hand_midi calls self._arranger.generate with the detected chords
TwoHandGenerate ==
    /\ ppc = "detect"
    /\ cpc = "done"
    /\ templates' = CHORD_TEMPLATES
    /\ gen' = GenArgs([k \in 1..Len(chords) |-> ChordInMs(chords[k], midi_tempo)], midi_tempo, 4,
                      DEFAULT_OCTAVE, split_hands(all_notes, MIDDLE_C))
    /\ gpc' = "start"
    /\ ppc' = "generate"
    /\ UNCHANGED <<contexts, gi, gen_events, all_events>>
    /\ UNCHANGED <<midi_tempo, output, staff_notes>>
    /\ UNCHANGED <<xvars, cvars, avars, qvars, lvars>>

\* the two instruments: Right Hand from treble, Left Hand from the events
TwoHandAssemble ==
    /\ ppc = "generate"
    /\ gpc = "done"
    /\ output' = [right_hand |-> SortByStart(gen.right_hand_notes),
                  left_hand |-> SortByStart(all_events)]
    /\ ppc' = "export"
    /\ UNCHANGED <<midi_tempo, staff_notes>>
    /\ UNCHANGED <<xvars, cvars, avars, gvars, qvars, lvars>>

\* midi_to_musicxml: `for inst in midi.instruments: for n in inst.notes:`
\* right_hand_notes is written as voice 1 / staff 1, left_hand_notes as voice 2 / staff 2
ExportSplitHands ==
    /\ ppc = "export"
    /\ LET notes == output.right_hand \o output.left_hand
       IN  staff_notes' = [right_hand_notes |-> SelectSeq(notes, LAMBDA n : n.pitch >= SplitPitch),
                           left_hand_notes |-> SelectSeq(notes, LAMBDA n : ~(n.pitch >= SplitPitch))]
    /\ ppc' = "done"
    /\ UNCHANGED <<midi_tempo, output>>
    /\ UNCHANGED <<xvars, cvars, avars, gvars, qvars, lvars>>

PNext == CNext \/ TwoHandGenerate \/ GNext \/ TwoHandAssemble \/ ExportSplitHands

SpecPipeline == PInit /\ [][PNext]_vars

\* ------------------------------------------------------------------------
\* MidiConverter.quantize_midi (times in units of quarter_duration / 16)
\* ------------------------------------------------------------------------
\* bound: the notes of one instrument
MaxQNotes == 3

\* 60.0 / tempo, in time units
quarter_duration == 16

\* grid_sizes
GridNames == {"32nd", "16th", "8th", "quarter"}
grid_sizes ==
    [g \in GridNames |-> CASE g = "32nd" -> quarter_duration \div 8
                          [] g = "16th" -> quarter_duration \div 4
                          [] g = "8th" -> quarter_duration \div 2
                          [] g = "quarter" -> quarter_duration]

\* a lookup whose default is the eighth-note grid
GridDurationEighthDefault(name) ==
    IF name \in DOMAIN grid_sizes THEN grid_sizes[name] ELSE quarter_duration \div 2

\* grid_sizes.get(grid, quarter_duration / 4)
GridDuration(name) ==
    IF name \in DOMAIN grid_sizes THEN grid_sizes[name] ELSE quarter_duration \div 4

\* round(t / grid_duration) * grid_duration
RoundToGrid(t, grid_duration) == RoundHalfEven(t, grid_duration) * grid_duration

\* standards = [16, 12, 8, 6, 4, 3, 2, 1, 0.5], in halves of a sixteenth
standards == <<32, 24, 16, 12, 8, 6, 4, 2, 1>>

\* min(standards, key=lambda s: abs(s - sixteenths)): the first of the nearest
_round_to_standard_duration(duration) ==
    LET dist(k) == Abs(standards[k] * quarter_duration - 8 * duration)
        closest == CHOOSE k \in 1..Len(standards) :
                      \A j \in 1..Len(standards) :
                          dist(k) <= dist(j) /\ (j < k => dist(j) > dist(k))
    IN  (standards[closest] * quarter_duration) \div 8

\* the inner `while j < len(notes)` of _quantize_note_sequence
RECURSIVE MergeLoop(_, _, _, _, _)
MergeLoop(notes, j, merge_end, pitch, grid_duration) ==
    IF j > Len(notes) THEN [j |-> j, merge_end |-> merge_end]
    ELSE LET next_note == notes[j]
             gap == next_note.start - notes[j - 1].end
             next_quantized_end == RoundToGrid(next_note.end, grid_duration)
         IN  IF gap < quarter_duration /\ next_note.pitch = pitch
             THEN MergeLoop(notes, j + 1, Max(merge_end, next_quantized_end), pitch,
                            grid_duration)
             ELSE [j |-> j, merge_end |-> merge_end]

\* the outer `while i < len(notes)` of _quantize_note_sequence, from note i on
RECURSIVE QuantizeFrom(_, _, _, _)
QuantizeFrom(notes, i, pitch, grid_duration) ==
    IF i > Len(notes) THEN <<>>
    ELSE LET current == notes[i]
             quantized_start == RoundToGrid(current.start, grid_duration)
             rounded_end == RoundToGrid(current.end, grid_duration)
             quantized_end == IF rounded_end <= quantized_start
                              THEN quantized_start + grid_duration
                              ELSE rounded_end
             run == MergeLoop(notes, i + 1, quantized_end, pitch, grid_duration)
             merged_duration == run.merge_end - quantized_start
             final_duration == IF 2 * merged_duration < grid_duration
                               THEN grid_duration \div 2
                               ELSE merged_duration
             final_end == quantized_start + _round_to_standard_duration(final_duration)
         IN  <<RhNote(pitch, quantized_start, final_end, current.velocity)>>
             \o QuantizeFrom(notes, run.j, pitch, grid_duration)

_quantize_note_sequence(notes, pitch, grid_duration) ==
    QuantizeFrom(notes, 1, pitch, grid_duration)

\* the keys of notes_by_pitch, in insertion order
RECURSIVE PitchOrder(_)
PitchOrder(notes) ==
    IF notes = <<>> THEN <<>>
    ELSE <<Head(notes).pitch>>
         \o PitchOrder(SelectSeq(Tail(notes), LAMBDA n : n.pitch # Head(notes).pitch))

\* new_instrument.notes for one instrument with notes
QuantizedInstrument(notes, grid_duration) ==
    LET pitches == PitchOrder(notes)
        by_pitch == [k \in 1..Len(pitches) |->
                        _quantize_note_sequence(
                            SortByStart(SelectSeq(notes, LAMBDA n : n.pitch = pitches[k])),
                            pitches[k], grid_duration)]
    IN  SortByStart(Flatten(by_pitch))

\* the notes an instrument is drawn from
QCandidates ==
    {RhNote(60, 0, 1, 64), RhNote(60, 0, 6, 80), RhNote(60, 5, 17, 64), RhNote(60, 20, 30, 64),
     RhNote(60, 23, 24, 90), RhNote(60, 40, 58, 64), RhNote(62, 2, 10, 64), RhNote(62, 6, 7, 64)}

\* the note lists of at most n notes
NoteLists(n) == UNION {[1..k -> QCandidates] : k \in 0..n}

\* midi_data.instruments: one instrument, alone, before an instrument without notes,
\* or after a one-note instrument
QInputs ==
    {<<notes>> : notes \in NoteLists(MaxQNotes)}
    \cup {<<notes, <<>>>> : notes \in NoteLists(MaxQNotes)}
    \cup {<<<<RhNote(48, 3, 9, 64)>>, notes>> : notes \in NoteLists(MaxQNotes)}

QInit ==
    /\ instruments \in QInputs
    /\ grid \in GridNames \cup {"triplet"}
    /\ qi = 0 /\ quantized = <<>> /\ qpc = "loop"
    /\ XIdle
    /\ CIdle
    /\ AIdle
    /\ GIdle
    /\ PIdle
    /\ LIdle

\* one iteration of `for instrument in midi_data.instruments`
QuantizeInstrument ==
    /\ qpc = "loop"
    /\ qi < Len(instruments)
    /\ quantized' = IF instruments[qi + 1] = <<>> THEN quantized
                     ELSE Append(quantized,
                                 QuantizedInstrument(instruments[qi + 1], GridDuration(grid)))
    /\ qi' = qi + 1
    /\ UNCHANGED <<instruments, grid, qpc>>
    /\ UNCHANGED <<xvars, cvars, avars, gvars, pvars, lvars>>

\* `return output`
QuantizeReturn ==
    /\ qpc = "loop"
    /\ qi = Len(instruments)
    /\ qpc' = "done"
    /\ UNCHANGED <<instruments, grid, qi, quantized>>
    /\ UNCHANGED <<xvars, cvars, avars, gvars, pvars, lvars>>

QNext == QuantizeInstrument \/ QuantizeReturn

SpecQuantize == QInit /\ [][QNext]_vars

\* ------------------------------------------------------------------------
\* a call of quantize_midi and a call of generate, each with configuration
\* values of its own; the two calls share no state and run in any order
\* ------------------------------------------------------------------------
\* calls of generate at 100 BPM in 4/4 with a named, the adaptive and an unknown selector
FallbackCalls ==
    {<<CHORD_TEMPLATES, GenArgs(cs, 100, 4, DEFAULT_OCTAVE, <<>>), p, DEFAULT_VELOCITY>> :
        cs \in ChordListsUpTo(MaxGenChords, SecondsPerBeat(100) * 4, {<<0, "major">>, <<11, "m7">>}),
        p \in {"broken_chord", "stride", "adaptive", "waltz"}}

FallbackInstruments ==
    {<<>>, <<<<RhNote(60, 0, 1, 64)>>>>, <<<<RhNote(60, 5, 17, 64), RhNote(62, 6, 7, 64)>>, <<>>>>}

FInit ==
    /\ instruments \in FallbackInstruments
    /\ grid \in {"16th", "8th", "triplet"}
    /\ qi = 0 /\ quantized = <<>> /\ qpc = "loop"
    /\ \E call \in FallbackCalls :
          /\ templates = call[1]
          /\ gen = call[2]
          /\ pattern = call[3]
          /\ base_velocity = call[4]
    /\ contexts = <<>> /\ gi = 0 /\ gen_events = <<>> /\ all_events = <<>> /\ gpc = "start"
    /\ ctx = <<>> /\ apc = "idle" /\ chosen = "none" /\ adjusted_velocity = 0
    /\ XIdle
    /\ CIdle
    /\ PIdle
    /\ LIdle

FNext == QNext \/ GNext

SpecFallbacks == FInit /\ [][FNext]_vars

\* ------------------------------------------------------------------------
\* Properties of the exporter
\* ------------------------------------------------------------------------
\* the <duration> total of one voice: rests, and one duration per onset group
\* (a note carrying <chord/> shares the onset of the note before it)
RECURSIVE VoiceDuration(_)
VoiceDuration(items) ==
    IF items = <<>> THEN 0
    ELSE (IF Head(items).chord THEN 0 ELSE Head(items).duration) + VoiceDuration(Tail(items))

\* the measure boundaries strictly inside [start_tick, start_tick + duration_ticks)
BoundariesCrossed(start_tick, duration_ticks) ==
    (start_tick + duration_ticks - 1) \div ticks_per_measure - start_tick \div ticks_per_measure

ChainDuration(c) == SumSeq([k \in 1..Len(c.events) |-> c.events[k].duration_ticks])

\* C1: in every written measure the <duration> values of each voice sum to
\* ticks_per_measure (40320), whatever the tick events of the voice
C1_MeasureDurationConserved ==
    \A k \in 1..Len(part) :
        /\ VoiceDuration(part[k].voice1) = ticks_per_measure
        /\ VoiceDuration(part[k].voice2) = ticks_per_measure

\* C2: a note crossing N >= 1 measure boundaries is emitted as N + 1 tick
\* events whose duration_ticks sum to the note's quantized duration_ticks
C2_TieSplitCountAndSum ==
    \A k \in 1..Len(chains) :
        LET c == chains[k]
            N == BoundariesCrossed(c.start_tick, c.duration_ticks)
        IN  N >= 1 => /\ Len(c.events) = N + 1
                      /\ ChainDuration(c) = c.duration_ticks

\* C3: the fragments of one note are contiguous: the first starts at the
\* note's start_tick and each ends at the measure boundary where the next starts
C3_TieFragmentsContiguous ==
    \A k \in 1..Len(chains) :
        LET c == chains[k]
        IN  /\ c.events[1].start_tick = c.start_tick
            /\ \A i \in 1..(Len(c.events) - 1) :
                  /\ c.events[i].start_tick + c.events[i].duration_ticks
                        = c.events[i + 1].start_tick
                  /\ c.events[i + 1].start_tick % ticks_per_measure = 0

\* C4: tie flags mark exactly the interior boundaries of a chain: an unsplit
\* note is (false, false); a split note is (true, false) first, (false, true)
\* last and (true, true) in between; the note from 0.1 s before a measure
\* boundary to 0.3 s after it gives exactly two events (true, false), (false, true)
C4_TieFlags ==
    \A k \in 1..Len(chains) :
        LET c == chains[k]
            n == Len(c.events)
            fits == BoundariesCrossed(c.start_tick, c.duration_ticks) = 0
        IN  /\ fits => n = 1
            /\ ~fits => n >= 2
            /\ \A i \in 1..n :
                  /\ c.events[i].tie_start = (i < n)
                  /\ c.events[i].tie_stop = (i > 1)
            /\ (c.note.pitch = ScenarioNote.pitch /\ c.note.start = ScenarioNote.start)
                  => n = 2
            /\ \A i \in 1..n :
                  \E j \in 1..Len(rh_events \o lh_events) :
                      (rh_events \o lh_events)[j] = c.events[i]

\* the scenario note has been quantized and split at the measure boundary
C4_Witness ==
    /\ xpc = "done"
    /\ \E k \in 1..Len(chains) :
          /\ chains[k].note.pitch = ScenarioNote.pitch
          /\ Len(chains[k].events) = 2
          /\ chains[k].events[1].tie_start /\ ~chains[k].events[1].tie_stop
          /\ ~chains[k].events[2].tie_start /\ chains[k].events[2].tie_stop
    /\ \E k \in 1..Len(chains) : Len(chains[k].events) = 1

\* ------------------------------------------------------------------------
\* Properties of the chord detector
\* ------------------------------------------------------------------------
\* the least k with k * b >= a, for a >= 0 and b > 0
CeilDiv(a, b) == (a + b - 1) \div b

\* C5: for a non-empty input the number of chords returned is
\* ceil(max(note.end) / measure_length), exact multiples included
C5_ChordCountIsCeil ==
    (cpc = "done" /\ all_notes # {}) =>
        Len(chords) = CeilDiv(TotalDuration(all_notes), UnitsPerBeat * beats_per_measure)

\* C6: chord i spans [i*L, (i+1)*L), the first starts at 0, each ends where the
\* next starts, and every instant of [0, max(note.end)) lies in exactly one span
C6_ChordsTile ==
    LET L == UnitsPerBeat * beats_per_measure
    IN  /\ \A i \in 1..Len(chords) :
              /\ chords[i].start_time = (i - 1) * L
              /\ chords[i].end_time = i * L
              /\ i < Len(chords) => chords[i].end_time = chords[i + 1].start_time
        /\ (cpc = "done" /\ all_notes # {}) =>
              /\ chords[1].start_time = 0
              /\ \A t \in 0..(TotalDuration(all_notes) - 1) :
                    Cardinality({i \in 1..Len(chords) :
                        chords[i].start_time <= t /\ t < chords[i].end_time}) = 1

\* detect_chords has returned chords for an input that ends inside a measure
C6_Witness ==
    /\ cpc = "done"
    /\ Len(chords) >= 2
    /\ TotalDuration(all_notes) % (UnitsPerBeat * beats_per_measure) # 0

\* the score of the claim, times 100: weight on the shifted template minus 0.3
\* times the weight off it, times 1.1 for major and minor
ClaimScore100(w, root, quality) ==
    LET shifted == {(root + iv) % 12 : iv \in CHORD_TEMPLATES[quality]}
        on == Sum12([pc \in 0..11 |-> IF pc \in shifted THEN w[pc] ELSE 0])
        off == Sum12(w) - on
    IN  (10 * on - 3 * off) * (IF quality = "major" \/ quality = "minor" THEN 11 ELSE 10)

\* position of a (root, quality) in root-ascending, then declaration order
PairOrder(root, quality) ==
    9 * root + (CHOOSE k \in 1..Len(Qualities) : Qualities[k] = quality)

AllPairs == (0..11) \X {Qualities[k] : k \in 1..Len(Qualities)}

\* C7: _match_chord returns a (root, quality) of maximal score, and of the
\* pairs reaching the maximum the first in root-ascending, declaration order
C7_MatchIsFirstMaximum ==
    chords # <<>> =>
        LET w == weights[Len(weights)]
            c == chords[Len(chords)]
            best == ClaimScore100(w, c.root, c.quality)
        IN  \A p \in AllPairs :
                /\ ClaimScore100(w, p[1], p[2]) <= best
                /\ PairOrder(p[1], p[2]) < PairOrder(c.root, c.quality)
                      => ClaimScore100(w, p[1], p[2]) < best

\* a measure with sounding notes got a chord other than (0, major) although a
\* later pair reaches the same score
C7_Witness ==
    /\ chords # <<>>
    /\ LET w == weights[Len(weights)]
           c == chords[Len(chords)]
       IN  /\ Sum12(w) > 0
           /\ PairOrder(c.root, c.quality) > 1
           /\ \E p \in AllPairs :
                 /\ PairOrder(p[1], p[2]) > PairOrder(c.root, c.quality)
                 /\ ClaimScore100(w, p[1], p[2]) = ClaimScore100(w, c.root, c.quality)

\* no note overlaps measure i
Silent(i) ==
    \A n \in all_notes :
        \/ n.end <= (i - 1) * UnitsPerBeat * beats_per_measure
        \/ n.start >= i * UnitsPerBeat * beats_per_measure

\* C8: a measure that no note overlaps gets the chord root 0, quality major
C8_SilentMeasureIsCMajor ==
    \A i \in 1..Len(chords) :
        Silent(i) => (chords[i].root = 0 /\ chords[i].quality = "major")

\* detect_chords has returned a chord for a measure without notes
C8_Witness ==
    /\ cpc = "done"
    /\ \E i \in 1..Len(chords) : Silent(i) /\ i < Len(chords)

\* ------------------------------------------------------------------------
\* Properties of the arranger
\* ------------------------------------------------------------------------
\* r > a / b and r < a / b for a fraction r and integers a, b > 0
Above(r, a, b) == r.num * b > a * r.den
Below(r, a, b) == r.num * b < a * r.den

\* the priority list of adaptive selection, one entry per outcome
PriorityList(c) ==
    LET d     == Max(c.total_measures - 1, 1)
        intro == 100 * c.measure_index < 8 * d
        outro == 100 * c.measure_index > 92 * d
        dens  == c.note_density
        vel   == c.avg_velocity
        jump  == \/ 2 * Abs(dens.num * c.prev_density.den - c.prev_density.num * dens.den)
                      > 3 * dens.den * c.prev_density.den
                 \/ Abs(vel.num * c.prev_velocity.den - c.prev_velocity.num * vel.den)
                      > 15 * vel.den * c.prev_velocity.den
        rising == 2 * dens.num * c.prev_density.den
                      > (2 * c.prev_density.num + c.prev_density.den) * dens.den
    IN  << <<intro /\ c.is_first_measure, "root_fifth">>,
           <<intro, "octave_root">>,
           <<outro /\ c.is_last_measure, "block_chord">>,
           <<outro, "arpeggio_up">>,
           <<jump, "ostinato">>,
           <<c.tempo < 90 /\ c.has_sustained, "arpeggio_up">>,
           <<c.tempo < 90 /\ Above(vel, 75, 1), "power_octave">>,
           <<c.tempo < 90, "octave_root">>,
           <<c.tempo < 110 /\ Above(vel, 80, 1) /\ Above(dens, 2, 1), "power_octave">>,
           <<c.tempo < 110 /\ Above(vel, 75, 1), "stride">>,
           <<c.tempo < 110 /\ Below(dens, 3, 2), "arpeggio_up">>,
           <<c.tempo < 110, "broken_chord">>,
           <<c.tempo < 140 /\ Above(vel, 75, 1) /\ Above(dens, 2, 1), "power_octave">>,
           <<c.tempo < 140 /\ rising /\ Above(vel, 65, 1), "oom_pah">>,
           <<c.tempo < 140 /\ Below(dens, 2, 1), "broken_chord">>,
           <<c.tempo < 140, "alberti_bass">>,
           <<Above(vel, 80, 1) /\ Above(dens, 3, 1), "tremolo_chord">>,
           <<Above(dens, 3, 1), "ostinato">>,
           <<Above(vel, 80, 1), "stride">>,
           <<TRUE, "alberti_bass">> >>

FirstMatch(rules) ==
    rules[CHOOSE k \in 1..Len(rules) : rules[k][1] /\ \A j \in 1..(k - 1) : ~rules[j][1]][2]

\* C9: in ADAPTIVE mode the pattern chosen for a measure is the one of the
\* first matching rule of the priority list: intro, outro, section
\* transition, then the rules of the tempo band of the measure.
C9_ChosenIsFirstMatch ==
    (apc = "generated" /\ pattern = "adaptive") => chosen = FirstMatch(PriorityList(ctx))

\* a pre-chorus measure at medium tempo was given oom-pah, a rule that is
\* reached only after intro, outro, transition and chorus have not matched
C9_Witness ==
    /\ apc = "generated" /\ pattern = "adaptive"
    /\ chosen = "oom_pah"
    /\ ctx.measure_index > 0
    /\ ~ctx.is_last_measure

\* the velocity the formula of the adjustment rule gives
FormulaVelocity(base, c) ==
    LET d == Max(c.total_measures - 1, 1)
        i == c.measure_index
    IN  IF 100 * i < 8 * d THEN Max(40, base - 15)
        ELSE IF 100 * i > 92 * d THEN Max(35, base - ((250 * i - 230 * d) \div d))
        ELSE IF Above(c.avg_velocity, 75, 1) THEN Min(100, base + 10)
        ELSE base

\* C10: the velocity passed to the pattern generator is max(40, base - 15)
\* in the intro (ratio < 0.08), max(35, base - floor((ratio - 0.92) / 0.08 * 20))
\* in the outro (ratio > 0.92), min(100, base + 10) when the measure's
\* average velocity is above 75, and base otherwise.
C10_AdjustedVelocity ==
    apc = "generated" => adjusted_velocity = FormulaVelocity(base_velocity, ctx)

\* ------------------------------------------------------------------------
\* Properties of generate and the pattern generators
\* ------------------------------------------------------------------------
\* the call of generate is the power-octave scenario
IsScenarioCall ==
    /\ templates = ScenarioCall[1] /\ gen = ScenarioCall[2]
    /\ pattern = ScenarioCall[3] /\ base_velocity = ScenarioCall[4]

HasEvent(events, pitch, start, velocity) ==
    \E k \in 1..Len(events) :
        events[k].pitch = pitch /\ events[k].start = start /\ events[k].velocity = velocity

\* C11: generate for one C major chord over one 4-beat measure at 120 BPM,
\* pattern POWER_OCTAVE, octave 3, velocity 65 returns 8 events, among them
\* pitches 48 and 60 at beat 1 with velocity 65, pitch 52 at beat 1.5 (250 ms)
\* with velocity 53 and pitch 55 at beat 2 (500 ms) with velocity 57.
C11_PowerOctaveScenario ==
    (gpc = "done" /\ IsScenarioCall) =>
        /\ Len(all_events) = 8
        /\ HasEvent(all_events, 48, 0, 65)
        /\ HasEvent(all_events, 60, 0, 65)
        /\ HasEvent(all_events, 52, 250, 53)
        /\ HasEvent(all_events, 55, 500, 57)

\* the chord of the last iteration, and whether broken chord handled it
LastChord == gen.chords[gi]
BrokenChordRan == gi >= 1 /\ chosen \notin (KnownPatterns \ {"broken_chord"})
FewPitches == Len(pitches_in_octave(LastChord, gen.octave)) < 3

\* C12: when the chord has fewer than 3 chord pitches, the broken-chord
\* generator returns a non-empty list equal to what the root+fifth generator
\* returns for the same chord, beat length, beats per measure, octave and velocity.
C12_BrokenChordFallsBackToRootFifth ==
    (BrokenChordRan /\ FewPitches) =>
        /\ gen_events # <<>>
        /\ gen_events = _root_fifth(LastChord, SecondsPerBeat(gen.tempo), gen.beats_per_measure,
                                    gen.octave, adjusted_velocity)

\* broken chord was selected by name for a two-pitch chord and returned events
C12_Witness ==
    /\ BrokenChordRan /\ FewPitches
    /\ pattern = "broken_chord"
    /\ Len(gen_events) = 3


\* ------------------------------------------------------------------------
\* Properties of the conversion pipeline
\* ------------------------------------------------------------------------
\* C13: with no input notes detect_chords returns an empty chord list, and with an
\* empty chord list generate returns an empty event list, whatever the pattern selector
C13_EmptyInputEmptyOutput ==
    /\ (cpc = "done" /\ all_notes = {}) => chords = <<>>
    /\ (gpc = "done" /\ gen.chords = <<>>) => all_events = <<>>

\* generate has returned for the adaptive selector on the chords of an empty MIDI
C13_Witness ==
    /\ all_notes = {} /\ cpc = "done"
    /\ gpc = "done" /\ gen.chords = <<>> /\ pattern = "adaptive"

\* the notes of a list, as a set
NoteSet(notes) == {notes[k] : k \in 1..Len(notes)}

\* C14: after create_two_hand_midi and the hand split of midi_to_musicxml, every note of
\* the Left Hand track is among the notes written as voice 2 / staff 2 and every note of
\* the Right Hand track among those written as voice 1 / staff 1
C14_TracksKeepTheirStaff ==
    ppc = "done" =>
        /\ NoteSet(output.left_hand) \subseteq NoteSet(staff_notes.left_hand_notes)
        /\ NoteSet(output.left_hand) \cap NoteSet(staff_notes.right_hand_notes) = {}
        /\ NoteSet(output.right_hand) \subseteq NoteSet(staff_notes.right_hand_notes)
        /\ NoteSet(output.right_hand) \cap NoteSet(staff_notes.left_hand_notes) = {}


\* ------------------------------------------------------------------------
\* Properties of the measure contexts
\* ------------------------------------------------------------------------
\* the right-hand notes whose onset t has chord.start <= t < chord.end
NotesWithin(chord) ==
    SelectSeq(gen.right_hand_notes, LAMBDA n : chord.start_time <= n.start /\ n.start < chord.end_time)

\* the measures in which _analyze_contexts counted the k-th right-hand note
CountedIn(k) ==
    {i \in 1..Len(gen.chords) :
        \E j \in 1..Len(_get_rh_notes_in_range(gen.right_hand_notes, gen.chords[i].start_time, gen.chords[i].end_time)) :
            _get_rh_notes_in_range(gen.right_hand_notes, gen.chords[i].start_time, gen.chords[i].end_time)[j] = gen.right_hand_notes[k]}

\* C15: for every measure i, note_density * beats_per_measure of context i is the number
\* of right-hand notes with chord_i.start <= t < chord_i.end, and no right-hand note
\* is counted in two measures
C15_DensityCountsNotesOfTheMeasure ==
    gpc \in {"loop", "done"} =>
        /\ \A i \in 1..Len(gen.chords) :
              contexts[i].note_density.num * gen.beats_per_measure
                  = Len(NotesWithin(gen.chords[i])) * contexts[i].note_density.den
        /\ \A k \in 1..Len(gen.right_hand_notes) : Cardinality(CountedIn(k)) <= 1


\* ------------------------------------------------------------------------
\* Properties of the beams
\* ------------------------------------------------------------------------
\* the written elements of a voice that start an onset: rests and first notes of chords
Onsets(items) == SelectSeq(items, LAMBDA it : ~it.chord)

\* an eighth or a sixteenth note
Beamable(it) == ~it.rest /\ it.duration \in {divisions \div 2, divisions \div 4}

\* the first element of the maximal run of beamable elements around element k
RECURSIVE RunStart(_, _)
RunStart(on, k) == IF k > 1 /\ Beamable(on[k - 1]) THEN RunStart(on, k - 1) ELSE k

RECURSIVE RunEnd(_, _)
RunEnd(on, k) == IF k < Len(on) /\ Beamable(on[k + 1]) THEN RunEnd(on, k + 1) ELSE k

\* the beam marker of element k when runs are the maximal runs of consecutive eighth
\* and sixteenth notes, cut after every 4 notes
RunMarker(on, k) ==
    IF ~Beamable(on[k]) THEN "none"
    ELSE LET first == RunStart(on, k) + ((k - RunStart(on, k)) \div 4) * 4
             last == Min(first + 3, RunEnd(on, k))
         IN  IF last = first THEN "none"
             ELSE IF k = first THEN "begin"
             ELSE IF k = last THEN "end"
             ELSE "continue"

VoiceBeamsAreRuns(items) ==
    \A k \in 1..Len(Onsets(items)) : Onsets(items)[k].beam = RunMarker(Onsets(items), k)

\* C16: in every voice of every measure the beam markers are those of the maximal runs
\* of consecutive eighth and sixteenth notes (broken by a rest or a note of another
\* duration, cut after 4 notes): begin / continue / end on every run of 2 or more
C16_BeamRuns ==
    \A k \in 1..Len(part) : VoiceBeamsAreRuns(part[k].voice1) /\ VoiceBeamsAreRuns(part[k].voice2)


\* ------------------------------------------------------------------------
\* Properties of the merge before export
\* ------------------------------------------------------------------------
\* the notes of one pitch that pass the noise filter, by start
KeptOfPitch(pitch) ==
    SetToSeq({n \in midi_notes : n.pitch = pitch /\ 4 * (n.end - n.start) >= 3 * ticks_per_sixteenth})

\* the onsets of the runs of pitch_notes, from note i on, when a note joins the run
\* before it only if it starts less than `window` after the running end or overlaps it
\* the latest end among notes i..j of pitch_notes
RunningEnd(pitch_notes, i, j) ==
    CHOOSE e \in {pitch_notes[x].end : x \in i..j} : \A x \in i..j : pitch_notes[x].end <= e

RECURSIVE WindowRunStarts(_, _, _)
WindowRunStarts(pitch_notes, i, window) ==
    IF i > Len(pitch_notes) THEN {}
    ELSE LET Joins(k) == pitch_notes[k].start - RunningEnd(pitch_notes, i, k - 1) < window
             last == CHOOSE j \in i..Len(pitch_notes) :
                        /\ \A k \in (i + 1)..j : Joins(k)
                        /\ j < Len(pitch_notes) => ~Joins(j + 1)
         IN  {pitch_notes[i].start} \cup WindowRunStarts(pitch_notes, last + 1, window)

\* the onsets of the merged notes of one pitch
MergedStarts(pitch) ==
    {chains[k].note.start : k \in {x \in 1..Len(chains) : chains[x].note.pitch = pitch}}

\* C17: the export merges two notes of one pitch only when the second starts less than
\* one eighth note after the running end of the first (or overlaps it); notes of one
\* pitch an eighth note or more apart stay separate
C17_MergeWithinAnEighth ==
    xpc # "quantize" =>
        \A pitch \in {n.pitch : n \in midi_notes} :
            MergedStarts(pitch) = WindowRunStarts(KeptOfPitch(pitch), 1, eighth_ticks)


\* ------------------------------------------------------------------------
\* Properties of quantize_midi
\* ------------------------------------------------------------------------
\* the instruments that have notes: one output instrument each
WithNotes == SelectSeq(instruments, LAMBDA notes : notes # <<>>)

\* the notes of one pitch of a note list, time-sorted
OfPitch(notes, pitch) == SortByStart(SelectSeq(notes, LAMBDA n : n.pitch = pitch))

\* the maximal runs of a time-sorted list, from note i on: the successive gaps
\* next.start - previous.end inside a run are below one beat
RECURSIVE BeatRuns(_, _)
BeatRuns(sorted, i) ==
    IF i > Len(sorted) THEN <<>>
    ELSE LET last == CHOOSE j \in i..Len(sorted) :
                        /\ \A k \in (i + 1)..j : sorted[k].start - sorted[k - 1].end < quarter_duration
                        /\ j < Len(sorted) => ~(sorted[j + 1].start - sorted[j].end < quarter_duration)
         IN  <<[first |-> i, last |-> last]>> \o BeatRuns(sorted, last + 1)

\* the durations of the ladder {16, 12, 8, 6, 4, 3, 2, 1, 0.5} sixteenths, in time units
Ladder == {(standards[k] * quarter_duration) \div 8 : k \in 1..Len(standards)}

\* the latest rounded offset of a run minus its rounded first onset
RoundedSpan(sorted, run, grid_duration) ==
    LET ends == {RoundToGrid(sorted[k].end, grid_duration) : k \in run.first..run.last}
    IN  (CHOOSE e \in ends : \A x \in ends : x <= e)
        - RoundToGrid(sorted[run.first].start, grid_duration)

\* d is a ladder value nearest to the span, the span taken as at least half a grid unit
NearestOnLadder(d, span, grid_duration) ==
    /\ d \in Ladder
    /\ 2 * d >= grid_duration
    /\ \A x \in Ladder :
          Abs(2 * d - Max(2 * span, grid_duration)) <= Abs(2 * x - Max(2 * span, grid_duration))

\* the output notes of one pitch are, run by run, the notes the runs stand for
RunsQuantized(notes, out, pitch, grid_duration) ==
    LET sorted == OfPitch(notes, pitch)
        runs == BeatRuns(sorted, 1)
        got == SelectSeq(out, LAMBDA n : n.pitch = pitch)
    IN  /\ Len(got) = Len(runs)
        /\ \A r \in 1..Len(runs) :
              /\ got[r].start = RoundToGrid(sorted[runs[r].first].start, grid_duration)
              /\ NearestOnLadder(got[r].end - got[r].start,
                                 RoundedSpan(sorted, runs[r], grid_duration), grid_duration)

\* C18: for each pitch of each instrument quantize_midi outputs one note per maximal run
\* of time-sorted notes with successive gaps below one beat; it starts at the run's first
\* onset rounded to the grid and lasts the ladder value nearest to the latest rounded
\* offset of the run minus the rounded first onset, never less than half a grid unit
C18_OneNotePerRun ==
    qpc = "done" =>
        /\ Len(quantized) = Len(WithNotes)
        /\ \A k \in 1..Len(WithNotes) :
              \A pitch \in {WithNotes[k][x].pitch : x \in 1..Len(WithNotes[k])} :
                  RunsQuantized(WithNotes[k], quantized[k], pitch, GridDuration(grid))


\* ------------------------------------------------------------------------
\* Properties of the key detection
\* ------------------------------------------------------------------------
\* the notes whose pitch class lies in the major scale on r
InMajorScale(r) == {n \in midi_notes : (n.pitch - r) % 12 \in {0, 2, 4, 5, 7, 9, 11}}

\* r has the largest number of notes in its major scale
BestRoot(r) == \A x \in 0..11 : Cardinality(InMajorScale(x)) <= Cardinality(InMajorScale(r))

\* the lowest of the best roots
LowestBestRoot == CHOOSE r \in 0..11 : BestRoot(r) /\ \A x \in 0..(r - 1) : ~BestRoot(x)

\* C19: the detected key is the lowest pitch class whose major scale holds the most notes,
\* always major, C major without notes, and its fifths is an integer in -6..6
C19_KeyIsLowestBestMajor ==
    xpc \in {"write", "done"} =>
        /\ key.key_mode = "major"
        /\ midi_notes = {} => key.key_note = "c"
        /\ midi_notes # {} => key.key_note = key_names[LowestBestRoot + 1]
        /\ key.fifths \in -6..6

\* a key other than C was detected where a higher root has as many notes in its scale
C19_Witness ==
    /\ xpc = "done"
    /\ midi_notes # {}
    /\ key.key_note # "c"
    /\ \E r \in (LowestBestRoot + 1)..11 : BestRoot(r)


\* ------------------------------------------------------------------------
\* Properties of the configuration defaults
\* ------------------------------------------------------------------------
\* C20: a pattern selector that is neither a generator's name nor the adaptive one is
\* handled by the broken-chord generator, and a grid name that is not in the table is
\* handled as the sixteenth-note grid; both calls return
C20_UnknownNamesUseDefaults ==
    /\ (gi >= 1 /\ pattern \notin KnownPatterns \cup {"adaptive"}) =>
          gen_events = _broken_chord(LastChord, SecondsPerBeat(gen.tempo), gen.beats_per_measure,
                                     gen.octave, adjusted_velocity)
    /\ (qpc = "done" /\ grid \notin {"32nd", "16th", "8th", "quarter"}) =>
          quantized = [k \in 1..Len(WithNotes) |->
                          QuantizedInstrument(WithNotes[k], quarter_duration \div 4)]

\* both calls returned notes for an unknown grid name and an unknown selector
C20_Witness ==
    /\ qpc = "done" /\ grid = "triplet" /\ quantized # <<>>
    /\ gpc = "done" /\ pattern = "waltz" /\ all_events # <<>>


\* ------------------------------------------------------------------------
\* Properties of the beam markers
\* ------------------------------------------------------------------------
\* the number-1 beam markers of a voice, in document order
Markers(items) ==
    LET marked == SelectSeq(items, LAMBDA it : it.beam # "none")
    IN  [k \in 1..Len(marked) |-> marked[k].beam]

\* a list of markers is a list of runs: begin, zero to two continue, end
RECURSIVE WellFormedRuns(_)
WellFormedRuns(b) ==
    \/ b = <<>>
    \/ \E n \in 2..4 :
          /\ Len(b) >= n
          /\ b[1] = "begin" /\ b[n] = "end"
          /\ \A x \in 2..(n - 1) : b[x] = "continue"
          /\ WellFormedRuns(SubSeq(b, n + 1, Len(b)))

VoiceBeamsWellFormed(items) ==
    /\ WellFormedRuns(Markers(items))
    /\ \A k \in 1..Len(items) :
          /\ items[k].beam # "none" =>
                /\ ~items[k].rest /\ ~items[k].chord
                /\ items[k].duration \in {divisions \div 2, divisions \div 4}
          /\ items[k].beam2 # "none" => items[k].duration = divisions \div 4

\* C21: in every voice of every measure the number-1 beam markers form runs of begin,
\* zero to two continue, end; a beam marker sits only on an eighth or a sixteenth that
\* is neither a rest nor a chord tone, and a number-2 marker only on a sixteenth
C21_BeamMarkersWellFormed ==
    \A k \in 1..Len(part) :
        VoiceBeamsWellFormed(part[k].voice1) /\ VoiceBeamsWellFormed(part[k].voice2)

\* a voice with five beamed onsets: a run of four and then a fifth short note, with a
\* chord tone among them
C21_Witness ==
    \E k \in 1..Len(part) :
        /\ Markers(part[k].voice1) = <<"begin", "continue", "continue", "end">>
        /\ Len(SelectSeq(part[k].voice1, LAMBDA it : Beamable(it) /\ ~it.chord)) >= 5
        /\ \E x \in 1..Len(part[k].voice1) : part[k].voice1[x].chord

\* ------------------------------------------------------------------------
\* Tick events on the sixteenth grid
\* ------------------------------------------------------------------------
DurationLadder ==
    {divisions \div 4, divisions \div 2, (3 * divisions) \div 4, divisions,
     (3 * divisions) \div 2, 2 * divisions, 3 * divisions, 4 * divisions}

OnGridAndSorted(events) ==
    /\ \A k \in 1..Len(events) :
          /\ events[k].start_tick % (divisions \div 4) = 0
          /\ events[k].duration_ticks \in DurationLadder
    /\ \A k \in 1..(Len(events) - 1) :
          \/ events[k].start_tick < events[k + 1].start_tick
          \/ /\ events[k].start_tick = events[k + 1].start_tick
             /\ events[k].pitch <= events[k + 1].pitch

\* C22: every tick event returned by _quantize_notes_for_xml, tie fragments
\* included, starts on a multiple of divisions / 4 and has a duration of the
\* ladder 2520 .. 40320, and the returned list is sorted by (start_tick, pitch).
C22_EventsOnGridSorted == OnGridAndSorted(rh_events) /\ OnGridAndSorted(lh_events)

\* a note split at a bar line whose first part, 5 sixteenths, is not itself on
\* the ladder, in a hand with notes of other pitches appended before it
C22_Witness ==
    /\ xpc # "quantize"
    /\ \E k \in 1..Len(chains) :
          /\ Len(chains[k].events) >= 2
          /\ ticks_per_measure - chains[k].start_tick \notin DurationLadder
    /\ \E k \in 2..Len(rh_events) : rh_events[k].pitch < rh_events[k - 1].pitch

\* ------------------------------------------------------------------------
\* SheetGenerator._midi_to_pitch
\* ------------------------------------------------------------------------
pitch_map_sharp ==
    <<<<"C", 0>>, <<"C", 1>>, <<"D", 0>>, <<"D", 1>>, <<"E", 0>>, <<"F", 0>>,
      <<"F", 1>>, <<"G", 0>>, <<"G", 1>>, <<"A", 0>>, <<"A", 1>>, <<"B", 0>>>>

pitch_map_flat ==
    <<<<"C", 0>>, <<"D", -1>>, <<"D", 0>>, <<"E", -1>>, <<"E", 0>>, <<"F", 0>>,
      <<"G", -1>>, <<"G", 0>>, <<"A", -1>>, <<"A", 0>>, <<"B", -1>>, <<"B", 0>>>>

\* the sharp spelling whatever the key
SpellSharp(pitch, fifths) ==
    [step |-> pitch_map_sharp[(pitch % 12) + 1][1],
     alter |-> pitch_map_sharp[(pitch % 12) + 1][2],
     octave |-> (pitch \div 12) - 1]

_midi_to_pitch(pitch, fifths) ==
    LET pc == pitch % 12
        octave == (pitch \div 12) - 1
        entry == IF fifths > 0 THEN pitch_map_sharp[pc + 1]
                 ELSE IF fifths < 0 THEN pitch_map_flat[pc + 1]
                 ELSE pitch_map_sharp[pc + 1]
    IN  [step |-> entry[1], alter |-> entry[2], octave |-> octave]

\* every MIDI pitch under every key signature _key_to_fifths can return
SpellInit ==
    /\ midi_pitch \in 0..127
    /\ key_fifths \in -6..6
    /\ spelled = <<>>
    /\ XIdle
    /\ CIdle
    /\ AIdle
    /\ GIdle
    /\ PIdle
    /\ QIdle
    /\ RIdle
    /\ TIdle

\* step, alter, octave = self._midi_to_pitch(event['pitch'], key_fifths)
SpellPitch ==
    /\ spelled = <<>>
    /\ spelled' = _midi_to_pitch(midi_pitch, key_fifths)
    /\ UNCHANGED <<midi_pitch, key_fifths>>
    /\ UNCHANGED <<xvars, cvars, avars, gvars, pvars, qvars, rvars, tvars>>

SpecSpell == SpellInit /\ [][SpellPitch]_vars

StepSemitone(step) ==
    CASE step = "C" -> 0 [] step = "D" -> 2 [] step = "E" -> 4 [] step = "F" -> 5
      [] step = "G" -> 7 [] step = "A" -> 9 [] step = "B" -> 11

\* C23: for every MIDI pitch 0..127 and key signature -6..+6 the spelling
\* (step, alter, octave) of _midi_to_pitch denotes the pitch it was given,
\* 12 * (octave + 1) + semitone(step) + alter = pitch, with alter 0 or +1 when
\* the signature is not negative and 0 or -1 when it is negative.
C23_SpellingDenotesPitch ==
    spelled # <<>> =>
        /\ 12 * (spelled.octave + 1) + StepSemitone(spelled.step) + spelled.alter = midi_pitch
        /\ key_fifths >= 0 => spelled.alter \in {0, 1}
        /\ key_fifths < 0 => spelled.alter \in {0, -1}

\* the highest black key, spelled in six flats
C23_Witness ==
    /\ spelled # <<>>
    /\ midi_pitch = 126
    /\ key_fifths = -6
    /\ spelled = [step |-> "G", alter |-> -1, octave |-> 9]

\* ------------------------------------------------------------------------
\* Events and the <note> elements written for them
\* ------------------------------------------------------------------------
\* the <note> elements of a voice that hold pitch p
PitchItems(items, p) == SelectSeq(items, LAMBDA it : ~it.rest /\ it.pitch = p)

\* the events of a hand in measure k (1-based) that hold pitch p
PitchEvents(events, k, p) ==
    SelectSeq(MeasureEvents(events, (k - 1) * ticks_per_measure), LAMBDA e : e.pitch = p)

EventsWritten(events, voice_of) ==
    /\ \A k \in 1..Len(part) : \A x \in 1..Len(events) :
          Len(PitchItems(voice_of[k], events[x].pitch))
              = Len(PitchEvents(events, k, events[x].pitch))
    /\ xpc = "done" =>
          \A x \in 1..Len(events) : events[x].start_tick \div ticks_per_measure < Len(part)

\* C24: no tick event is lost on export: every tick event of a hand, tie
\* continuations included, is written as exactly one <note> element of that
\* hand's voice in the measure containing its start_tick, whatever other events
\* share the voice.
C24_NoEventLost ==
    /\ EventsWritten(rh_events, [k \in 1..Len(part) |-> part[k].voice1])
    /\ EventsWritten(lh_events, [k \in 1..Len(part) |-> part[k].voice2])

\* ------------------------------------------------------------------------
\* Velocities of the generated events
\* ------------------------------------------------------------------------
\* C25: for every base velocity 0..127, every pattern, chord quality and measure
\* context, each NoteEvent returned by generate has a velocity in 0..127.
C25_VelocityInMidiRange ==
    \A k \in 1..Len(all_events) : all_events[k].velocity \in 0..127

\* ------------------------------------------------------------------------
\* Generated events and their measure
\* ------------------------------------------------------------------------
\* C26: for every pattern and beats_per_measure >= 1 each NoteEvent generated for
\* chord i ends after it starts and lies inside that chord's measure:
\* chord_i.start <= start and end <= chord_i.end.
C26_EventsInsideTheirMeasure ==
    (gpc = "loop" /\ gi > 0) =>
        \A k \in 1..Len(gen_events) :
            /\ gen_events[k].end > gen_events[k].start
            /\ gen.chords[gi].start_time <= gen_events[k].start
            /\ gen_events[k].end <= gen.chords[gi].end_time

\* ------------------------------------------------------------------------
\* quantize_midi applied to its own output
\* ------------------------------------------------------------------------
\* pitches, onsets and offsets of a note list
Timing(notes) ==
    [k \in 1..Len(notes) |->
        [pitch |-> notes[k].pitch, start |-> notes[k].start, end |-> notes[k].end]]

\* C27: quantize_midi is idempotent for a fixed grid and tempo: applied to its
\* own output it returns the same notes (pitches, onsets, offsets).
C27_QuantizeIdempotent ==
    \A k \in 1..Len(quantized) :
        Timing(QuantizedInstrument(quantized[k], GridDuration(grid))) = Timing(quantized[k])

\* ------------------------------------------------------------------------
\* Triads
\* ------------------------------------------------------------------------
\* the pitch classes root + template sound with one equal weight, no other sounds
ExactlyWithEqualWeights(w, root, template) ==
    /\ w[root] > 0
    /\ \A i \in 0..11 : w[(root + i) % 12] = (IF i \in template THEN w[root] ELSE 0)

\* C28: for every root r in 0..11 a measure whose sounding pitch classes are
\* exactly the major triad {r, r+4, r+7} with equal weights is classified
\* (r, major), and one with exactly the minor triad {r, r+3, r+7} (r, minor).
C28_TriadsClassified ==
    \A k \in 1..Len(chords) : \A r \in 0..11 :
        /\ ExactlyWithEqualWeights(weights[k], r, {0, 4, 7})
              => (chords[k].root = r /\ chords[k].quality = "major")
        /\ ExactlyWithEqualWeights(weights[k], r, {0, 3, 7})
              => (chords[k].root = r /\ chords[k].quality = "minor")

\* the minor triad on the last root, B, classified in the second measure
C28_Witness ==
    /\ cpc = "done"
    /\ Len(chords) >= 2
    /\ ExactlyWithEqualWeights(weights[2], 11, {0, 3, 7})
    /\ chords[2].root = 11
    /\ chords[2].quality = "minor"

\* ------------------------------------------------------------------------
\* RateLimiter (core/rate_limiter.py), settings of config.py
\* ------------------------------------------------------------------------
free_max_duration_seconds == 30
pro_max_duration_seconds == 600
free_monthly_conversions == 3

\* bounds: the calls of check_and_increment in one behaviour, and the months the
\* clock moves on
MaxCalls == 6
MaxMonths == 3

LIMITS ==
    [pro \in BOOLEAN |->
        IF pro THEN [monthly_conversions |-> 999999,
                     max_duration_seconds |-> pro_max_duration_seconds]
        ELSE [monthly_conversions |-> free_monthly_conversions,
              max_duration_seconds |-> free_max_duration_seconds]]

\* year and month of a datetime; NoDate stands for monthly_reset_date = None
Month(year, month) == [year |-> year, month |-> month]
NoDate == Month(0, 0)
FirstMonth == Month(2025, 11)
NextMonth(t) == IF t.month = 12 THEN Month(t.year + 1, 1) ELSE Month(t.year, t.month + 1)
MonthsSince(t) == (t.year - FirstMonth.year) * 12 + t.month - FirstMonth.month

\* the condition of _reset_if_new_month
NewMonth(reset_date, t) ==
    \/ reset_date = NoDate
    \/ t.year > reset_date.year
    \/ (t.year = reset_date.year /\ t.month > reset_date.month)

_reset_if_new_month(u, t) ==
    IF NewMonth(u.monthly_reset_date, t)
    THEN [u EXCEPT !.monthly_conversions_used = 0, !.monthly_reset_date = t]
    ELSE u

\* check_and_increment raising only above the limit
CheckAndIncrementAboveLimit(u, t) ==
    LET u1 == _reset_if_new_month(u, t)
    IN  IF u1.monthly_conversions_used > LIMITS[u1.is_pro].monthly_conversions
        THEN [user |-> u1, raised |-> TRUE]
        ELSE [user |-> [u1 EXCEPT !.monthly_conversions_used = @ + 1], raised |-> FALSE]

\* the User after the call, and whether RateLimitExceeded was raised
check_and_increment(u, t) ==
    LET u1 == _reset_if_new_month(u, t)
        limits == LIMITS[u1.is_pro]
    IN  IF u1.monthly_conversions_used >= limits.monthly_conversions
        THEN [user |-> u1, raised |-> TRUE]
        ELSE [user |-> [u1 EXCEPT !.monthly_conversions_used = @ + 1], raised |-> FALSE]

get_max_duration(u) == LIMITS[u.is_pro].max_duration_seconds

User(is_pro, used, reset_date) ==
    [is_pro |-> is_pro, monthly_conversions_used |-> used, monthly_reset_date |-> reset_date]

\* the rows a user can have at FirstMonth, with the conversions of that month:
\* counted this month, counted in an earlier month (of this year or of the
\* year before), or a row without a reset date
UsersAtFirstMonth ==
    {[row |-> User(pro, used, FirstMonth), this_month |-> used] :
        pro \in BOOLEAN, used \in 0..free_monthly_conversions}
    \cup {[row |-> User(pro, used, d), this_month |-> 0] :
        pro \in BOOLEAN, used \in 0..free_monthly_conversions,
        d \in {Month(2025, 10), Month(2024, 12)}}
    \cup {[row |-> User(pro, 0, NoDate), this_month |-> 0] : pro \in BOOLEAN}

RInit ==
    /\ \E u \in UsersAtFirstMonth : user = u.row /\ month_successes = u.this_month
    /\ now = FirstMonth
    /\ calls = 0
    /\ last_call = <<>>
    /\ TIdle
    /\ SIdle
    /\ XIdle
    /\ CIdle
    /\ AIdle
    /\ GIdle
    /\ PIdle
    /\ QIdle

\* await RateLimiter.check_and_increment(user, db): what it does to the row
RateLimitCall ==
    LET result == check_and_increment(user, now)
    IN  /\ user' = result.user
        /\ last_call' = [before |-> user, after |-> result.user, at |-> now,
                         raised |-> result.raised]
        /\ month_successes' = IF result.raised THEN month_successes ELSE month_successes + 1
        /\ calls' = calls + 1
        /\ UNCHANGED now

\* one call of check_and_increment
CheckAndIncrement ==
    /\ tpc = "idle"
    /\ calls < MaxCalls
    /\ RateLimitCall
    /\ UNCHANGED <<xvars, cvars, avars, gvars, pvars, qvars, svars, tvars>>

\* the calendar moves on to the next month
ClockTick ==
    /\ tpc = "idle"
    /\ MonthsSince(now) < MaxMonths
    /\ now' = NextMonth(now)
    /\ month_successes' = 0
    /\ UNCHANGED <<user, calls, last_call>>
    /\ UNCHANGED <<xvars, cvars, avars, gvars, pvars, qvars, svars, tvars>>

RNext == CheckAndIncrement \/ ClockTick

SpecRateLimit == RInit /\ [][RNext]_vars

\* ------------------------------------------------------------------------
\* create_transcription (api/v1/transcriptions.py)
\* ------------------------------------------------------------------------
NoUser == <<>>

\* the durations processor.get_duration can return, around the two limits
FileDurations == {10, 30, 31, 600, 601}

CreateInit ==
    /\ \/ \E u \in UsersAtFirstMonth : user = u.row /\ month_successes = u.this_month
       \/ user = NoUser /\ month_successes = 0
    /\ now = FirstMonth
    /\ calls = 0
    /\ last_call = <<>>
    /\ request \in [audio_exists : BOOLEAN, file_duration : FileDurations]
    /\ tpc = "start"
    /\ printed = 0
    /\ response = 0
    /\ record = <<>>
    /\ SIdle
    /\ XIdle
    /\ CIdle
    /\ AIdle
    /\ GIdle
    /\ PIdle
    /\ QIdle

\* if user is not None: await RateLimiter.check_and_increment(user, db);
\* RateLimitExceeded ends the request with its status_code 429
CreateRateLimit ==
    /\ tpc = "start"
    /\ IF user # NoUser
       THEN /\ RateLimitCall
            /\ tpc' = IF last_call'.raised THEN "done" ELSE "path"
            /\ response' = IF last_call'.raised THEN 429 ELSE response
       ELSE /\ tpc' = "path"
            /\ UNCHANGED <<rvars, response>>
    /\ UNCHANGED <<request, printed, record>>
    /\ UNCHANGED <<xvars, cvars, avars, gvars, pvars, qvars, svars>>

\* if not Path(audio_path).exists(): raise HTTPException(status_code=404)
CreateResolvePath ==
    /\ tpc = "path"
    /\ IF request.audio_exists
       THEN tpc' = "precheck" /\ UNCHANGED response
       ELSE tpc' = "done" /\ response' = 404
    /\ UNCHANGED <<request, printed, record>>
    /\ UNCHANGED <<xvars, cvars, avars, gvars, pvars, qvars, svars, rvars>>

\* max_duration of the caller
MaxDurationOf(u) ==
    IF u # NoUser THEN get_max_duration(u) ELSE pro_max_duration_seconds

\* the try block of the pre-check: HTTPException(400) is raised inside it and
\* its `except Exception` clause catches and prints it; then the record is made
CreatePrecheck ==
    /\ tpc = "precheck"
    /\ printed' = IF request.file_duration > MaxDurationOf(user) THEN 400 ELSE 0
    /\ record' = [status |-> "processing", progress |-> 0]
    /\ tpc' = "transcribe"
    /\ UNCHANGED <<request, response>>
    /\ UNCHANGED <<xvars, cvars, avars, gvars, pvars, qvars, svars, rvars>>

\* service.transcribe returns or raises; the request returns ApiResponse either way
CreateTranscribe ==
    /\ tpc = "transcribe"
    /\ \E returned \in BOOLEAN :
          record' = IF returned THEN [status |-> "completed", progress |-> 100]
                    ELSE [status |-> "failed", progress |-> 0]
    /\ response' = 200
    /\ tpc' = "done"
    /\ UNCHANGED <<request, printed>>
    /\ UNCHANGED <<xvars, cvars, avars, gvars, pvars, qvars, svars, rvars>>

TNext == CreateRateLimit \/ CreateResolvePath \/ CreatePrecheck \/ CreateTranscribe

SpecCreate == CreateInit /\ [][TNext]_vars

\* the pre-check has run on a file longer than the caller's limit
OverlongPrechecked ==
    /\ tpc = "transcribe" \/ (tpc = "done" /\ response \notin {404, 429})
    /\ request.file_duration > MaxDurationOf(user)

\* C29: when the pre-checked audio duration exceeds the caller's maximum (the
\* free or pro limit of a signed-in user, the pro limit for a guest) the request
\* ends with HTTP 400 and the transcription is not run: no record of the
\* request reaches status 'completed'.
C29_OverlongRejected ==
    OverlongPrechecked =>
        /\ tpc = "done" => response = 400
        /\ record # <<>> => record.status # "completed"

\* ------------------------------------------------------------------------
\* The monthly quota of a free-tier user
\* ------------------------------------------------------------------------
\* what the last call did, given the row it found
LastCallAsSpecified ==
    last_call # <<>> =>
        LET before == last_call.before
            after == last_call.after
            later_month == NewMonth(before.monthly_reset_date, last_call.at)
        IN  /\ later_month =>
                  (~last_call.raised /\ after.monthly_conversions_used = 1)
            /\ (~later_month /\ before.monthly_conversions_used >= free_monthly_conversions) =>
                  (last_call.raised /\ after = before)
            /\ (~later_month /\ before.monthly_conversions_used < free_monthly_conversions) =>
                  (~last_call.raised
                   /\ after.monthly_conversions_used = before.monthly_conversions_used + 1)

\* C30: after any sequence of check_and_increment calls for a free-tier user
\* monthly_conversions_used never exceeds free_monthly_conversions; within one
\* calendar month at most that many calls succeed, every further call raises
\* RateLimitExceeded and leaves the counter unchanged, and the first call in a
\* later month resets the counter to 0 before counting.
C30_MonthlyQuota ==
    (user # NoUser /\ ~user.is_pro) =>
        /\ user.monthly_conversions_used <= free_monthly_conversions
        /\ month_successes <= free_monthly_conversions
        /\ LastCallAsSpecified

\* a free user who used up the quota in one month, was refused, and has just
\* made the first call of a later month
C30_Witness ==
    /\ user # NoUser
    /\ ~user.is_pro
    /\ calls >= 5
    /\ last_call # <<>>
    /\ last_call.before.monthly_conversions_used = free_monthly_conversions
    /\ last_call.before.monthly_reset_date = FirstMonth
    /\ last_call.at = Month(2026, 1)
    /\ user.monthly_conversions_used = 1

====
